---- MODULE Spec2Model ----
(***************************************************************************)
(* Model of the overseer front end: the REST client (apiClient), and the   *)
(* Home component's upload / job-polling state machine (page.tsx).         *)
(*                                                                         *)
(* Every synchronous run of a handler between two awaits is one action;    *)
(* React's render and the re-run of the polling effect that follow a state *)
(* update are part of the action that made the update.  Timers and network *)
(* latencies are untimed: a pending timer or response may fire at any      *)
(* later step.  Purely cosmetic state (processingLog, uploadProgress,      *)
(* isDragging, showDefaultObjects, activeTab) is left out.                 *)
(***************************************************************************)
EXTENDS Bags, FiniteSets, Integers, Sequences, TLC

VARIABLES
    uploadStatus,            \* "idle" | "uploading" | "processing" | "complete" | "error"
    jobId,                   \* NoJob or a job id
    jobStatus,               \* "null" or the last status string stored
    isLoading,
    showUploadModal,
    uploadedFile,            \* NoFile or a file record
    showSuccessNotification,
    resumes, summary, clusterData, embeddingsData, removedEmbeddingsData,
                             \* NoJob (empty) or the job whose data is shown
    mounted,                 \* the Home component is mounted
    timers,                  \* the active setInterval timers
    effTimer,                \* `interval` of the latest run of the polling effect
    inflight,                \* bag of job-status requests awaiting their response
    uploads,                 \* bag of upload requests awaiting their response
    fanouts,                 \* bag of completion fan-outs (async continuations)
    serverStatus,            \* the backend's status of each job
    fetched,                 \* per dataset: requests issued for the newest job (saturating)
    terminalSeen,            \* a response reported completed/failed for the newest job
    deviated,                \* the newest job left the upload scenario: its polling
                             \* observed something else than processing and completed,
                             \* or a dataset of ScenarioDatasets was not available
    call                     \* the last call made on the API client (ApiSpec)

homeVars == <<uploadStatus, jobId, jobStatus, isLoading, showUploadModal, uploadedFile,
              showSuccessNotification, resumes, summary, clusterData, embeddingsData,
              removedEmbeddingsData, mounted, timers, effTimer, inflight, uploads,
              fanouts, serverStatus, fetched, terminalSeen, deviated>>

VARIABLES
    revision,                \* which revision of the sphere scene runs
    unbiasedEmbeddings,      \* SphereScene prop: NoPayload or a sequence of rows
    removedEmbeddings,       \* SphereScene prop: NoPayload or a sequence of rows
    apiDataPoints,           \* SphereScene state: the converted unbiased rows
    spheres,                 \* meshes of the unbiased sphere group in the scene
    removedSpheres,          \* meshes of the removed sphere group in the scene
    clusterEmbeddings,       \* SphereScene prop: per cluster, its embeddings
    allClustersGroup,        \* per cluster, the positions of its rendered nodes
    allLinesGroup,           \* the connection lines in the scene
    dataPoint,               \* the data point whose sphere is being created
    rgbColor,                \* the colour computed for its sphere
    scene,                   \* "none" | "mounted" | "unmounted": the component's life
    listeners,               \* the event listeners that are registered
    sceneGroups,             \* per kind of group, how many are children of the scene
    stale,                   \* objects outside the groups now shown whose geometry
                             \* and material were not disposed (saturating)
    activeCluster,           \* state of the cluster revision: NoCluster or a cluster
    visibleClusters,         \* per cluster, FALSE when it is hidden
    mockConnections,         \* cluster and API revisions: the connections of the
                             \* mock data points, drawn when the module loads
    cameraZ,                 \* camera.position.z of the camera of the latest effect run
    cameraPositionRef,       \* cameraPositionRef.current.z
    recenters                \* the recenter animations that still have frames to run

embVars == <<unbiasedEmbeddings, removedEmbeddings, apiDataPoints, spheres, removedSpheres>>
linkVars == <<clusterEmbeddings, allClustersGroup, allLinesGroup>>
colorVars == <<dataPoint, rgbColor>>
lifeVars == <<scene, listeners, sceneGroups, stale, activeCluster, visibleClusters,
              mockConnections>>
camVars == <<cameraZ, cameraPositionRef, recenters>>
sceneVars == <<revision, embVars, linkVars, colorVars, lifeVars, camVars>>

VARIABLES
    biasCluster,             \* BiasAnalysisScreen prop activeCluster: NullSelection or a number
    biasData,                \* the statistics the bias panel renders
    biasName                 \* the group name the bias panel renders

biasVars == <<biasCluster, biasData, biasName>>

VARIABLES
    pending                  \* bag of download / fetch handlers of Home awaiting a response

handlerVars == <<pending>>

VARIABLES
    isHovered,               \* the spheres of the scene whose isHovered uniform is set
    isActiveCluster,         \* the spheres whose isActiveCluster uniform is true
    pulseIntensity,          \* the spheres whose pulseIntensity uniform is 1
    closureCluster,          \* activeCluster as the scene effect that ran last captured it
    hoveredSphereRef,        \* hoveredSphereRef.current, or `hoveredNode` of the cluster
                             \* effect: NoSphere, a sphere, or a mesh of an earlier run
    hoveredVector,           \* state hoveredVector / hoveredNode: what the hover panel shows
    isDraggingRef,
    didMoveRef,
    previousMousePositionRef,
    rotationRef,             \* in units of 0.006 rad, one per pixel dragged
    pressPosition            \* where the pointer was at the last mousedown

pickVars == <<isHovered, isActiveCluster, pulseIntensity, closureCluster, hoveredSphereRef,
              hoveredVector, isDraggingRef, didMoveRef, previousMousePositionRef,
              rotationRef, pressPosition>>
VARIABLES
    clusterKeys,             \* Object.keys(clusterEmbeddings.clusters): a set of strings
    meshIds,                 \* pairs <<key, cluster_id>>: userData.cluster_id of the
                             \* spheres drawn for the cluster stored under `key`
    analysisIds              \* pairs <<key, id>>: the id getClusterAnalysis was called
                             \* with for the cluster stored under `key`

keyVars == <<clusterKeys, meshIds, analysisIds>>

VARIABLES
    txPc,                    \* where the transform_embeddings handler is
    requests,                \* requests handled so far
    responses,               \* what `res` has sent for the current request
    embeddingsFile,          \* resume_embeddings.npy is on disk
    outputFile,              \* api/transformed_embeddings.json: Missing or its text
    fileData,                \* the text read from the output file
    embeddingsReady,         \* the embeddings file existed or was generated
    fileOpThrew,             \* fs.writeFile or fs.readFile threw during this request
    transformFailed          \* `error` of the exec callback of transform_embeddings.py

txVars == <<txPc, requests, responses, embeddingsFile, outputFile, fileData,
            embeddingsReady, fileOpThrew, transformFailed>>
extraVars == <<keyVars, txVars>>
auxVars == <<biasVars, handlerVars, pickVars, extraVars>>
vars == <<homeVars, call, sceneVars, auxVars>>

-----------------------------------------------------------------------------
(* Bounds *)
MaxJobs == 2
MaxInFlight == 2
MaxFanouts == 1
MaxPending == 1
MaxKeyNumber == 10
MaxRequests == 2
CountCap == 2

NoJob == 0
NoTimer == 0
Jobs == 1..MaxJobs

-----------------------------------------------------------------------------
(* API client *)

Http == {"ok", "404", "500", "neterr"}

Res(out, didFetch) == [out |-> out, fetched |-> didFetch]

\* try { fetch; if (!ok) throw; return json } catch { throw error }
ThrowOnNonOk(http) == IF http = "ok" THEN "data" ELSE "throw"

\* A client whose soft calls rethrow instead of returning {error}
SoftRethrows(http) == IF http = "ok" THEN "data" ELSE "throw"

\* try { fetch; if (!ok) { if (404) return {error}; throw }; return json }
\* catch (error) { return { error: error.message } }
SoftOnNonOk(http) ==
    IF http = "ok" THEN "data"
    ELSE IF http = "404" THEN "softError"
    ELSE "softError"

getApiStatus(http) ==
    Res(IF http = "ok" THEN "data" ELSE "statusError", TRUE)

uploadDataset(http) == Res(ThrowOnNonOk(http), TRUE)

\* A getJobStatus that checks the job id only after the request
getJobStatusFetchFirst(job, http) == Res(ThrowOnNonOk(http), TRUE)

getJobStatus(job, http) ==
    IF job = NoJob THEN Res("throw", FALSE)
    ELSE Res(ThrowOnNonOk(http), TRUE)

getAvailableDatasets(job, http) ==
    IF job = NoJob THEN Res("empty", FALSE)
    ELSE Res(SoftOnNonOk(http), TRUE)

fetchPaginatedDataset(job, http) ==
    IF job = NoJob THEN Res("softError", FALSE)
    ELSE Res(SoftOnNonOk(http), TRUE)

getAllClustersInfo(job, http) ==
    IF job = NoJob THEN Res("softError", FALSE)
    ELSE Res(ThrowOnNonOk(http), TRUE)

getCluster(job, http) ==
    IF job = NoJob THEN Res("softError", FALSE)
    ELSE fetchPaginatedDataset(job, http)

getAllClusterAnalyses(job, http) ==
    IF job = NoJob THEN Res("softError", FALSE)
    ELSE Res(SoftOnNonOk(http), TRUE)

getUnbiasedEmbeddingsData(job, http) ==
    IF job = NoJob THEN Res("softError", FALSE)
    ELSE Res(ThrowOnNonOk(http), TRUE)

getRemovedEmbeddingsData(job, http) ==
    IF job = NoJob THEN Res("softError", FALSE)
    ELSE Res(ThrowOnNonOk(http), TRUE)

getClusterAnalysis(job, http) ==
    IF job = NoJob THEN Res("softError", FALSE)
    ELSE Res(SoftOnNonOk(http), TRUE)

getUnbiasingSummary(job, http) ==
    IF job = NoJob THEN Res("softError", FALSE)
    ELSE Res(SoftOnNonOk(http), TRUE)

downloadFile(job, http) ==
    IF job = NoJob THEN Res("null", FALSE)
    ELSE Res(IF http = "ok" THEN "data" ELSE "null", TRUE)

\* http is the answer to its first request, getAvailableDatasets
fetchAllDatasetStats(job, http) ==
    IF job = NoJob THEN Res("softError", FALSE)
    ELSE Res(IF getAvailableDatasets(job, http).out = "data" THEN "data" ELSE "softError",
             TRUE)

ApiFunctions ==
    {"getApiStatus", "uploadDataset", "getJobStatus", "getAvailableDatasets",
     "fetchPaginatedDataset", "getCleanedResumes", "getUnbiasedResumes",
     "getRemovedEntries", "getAllClustersDataset", "getAllClustersInfo", "getCluster",
     "getAllClusterAnalyses", "getUnbiasedEmbeddingsData", "getRemovedEmbeddingsData",
     "getClusterAnalysis", "getUnbiasingSummary", "downloadFile", "fetchAllDatasetStats"}

\* The functions that take no job id
Unscoped == {"getApiStatus", "uploadDataset"}

ApiCall(fn, job, http) ==
    CASE fn = "getApiStatus" -> getApiStatus(http)
      [] fn = "uploadDataset" -> uploadDataset(http)
      [] fn = "getJobStatus" -> getJobStatus(job, http)
      [] fn = "getAvailableDatasets" -> getAvailableDatasets(job, http)
      [] fn \in {"fetchPaginatedDataset", "getCleanedResumes", "getUnbiasedResumes",
                 "getRemovedEntries", "getAllClustersDataset"}
             -> fetchPaginatedDataset(job, http)
      [] fn = "getAllClustersInfo" -> getAllClustersInfo(job, http)
      [] fn = "getCluster" -> getCluster(job, http)
      [] fn = "getAllClusterAnalyses" -> getAllClusterAnalyses(job, http)
      [] fn = "getUnbiasedEmbeddingsData" -> getUnbiasedEmbeddingsData(job, http)
      [] fn = "getRemovedEmbeddingsData" -> getRemovedEmbeddingsData(job, http)
      [] fn = "getClusterAnalysis" -> getClusterAnalysis(job, http)
      [] fn = "getUnbiasingSummary" -> getUnbiasingSummary(job, http)
      [] fn = "downloadFile" -> downloadFile(job, http)
      [] fn = "fetchAllDatasetStats" -> fetchAllDatasetStats(job, http)

NoCall == [fn |-> "none", job |-> NoJob, http |-> "ok", out |-> "none", fetched |-> FALSE]

\* One call of an API client function, with the HTTP answer it meets
Invoke(fn, job, http) ==
    /\ fn \in Unscoped => job = NoJob
    /\ call' = [fn |-> fn, job |-> job, http |-> http,
                out |-> ApiCall(fn, job, http).out,
                fetched |-> ApiCall(fn, job, http).fetched]
    /\ UNCHANGED <<homeVars, sceneVars, auxVars>>

ApiInit == call = NoCall
ApiNext == \E fn \in ApiFunctions, job \in {NoJob} \cup Jobs, http \in Http :
              Invoke(fn, job, http)

-----------------------------------------------------------------------------
(* Files offered to the upload dialog *)

CsvSuffix == <<".", "c", "s", "v">>
FileNames == {<<"a", ".", "c", "s", "v">>, <<"a", ".", "t", "x", "t">>, <<"c", "s", "v">>}
FileTypes == {"text/csv", "text/plain", ""}
Files == [name : FileNames, type : FileTypes]
NoFile == [name |-> <<>>, type |-> "null"]

\* String.prototype.endsWith
EndsWith(s, suffix) ==
    /\ Len(s) >= Len(suffix)
    /\ SubSeq(s, Len(s) - Len(suffix) + 1, Len(s)) = suffix

\* The early return of handleFileChange and handleDrop
Rejected(file) == file.type # "text/csv" /\ ~EndsWith(file.name, CsvSuffix)

-----------------------------------------------------------------------------
(* The backend, seen through its HTTP contract *)

ServerNext(s) ==
    CASE s = "queued" -> {"processing"}
      [] s = "processing" -> {"running", "completed", "failed"}
      [] s = "running" -> {"completed", "failed"}
      [] OTHER -> {}

Created == {j \in Jobs : serverStatus[j] # "none"}

\* The newest job, the one the last successful upload returned
LastJob == IF Created = {} THEN NoJob ELSE CHOOSE j \in Created : \A k \in Created : k <= j

\* The job advances on the backend.  Only a status request reads the backend's
\* status, so its progress is followed while a timer polls the job.
ServerAdvance(j) ==
    /\ j \in Created
    /\ \E t \in timers : t.job = j
    /\ \E s \in ServerNext(serverStatus[j]) :
          serverStatus' = [serverStatus EXCEPT ![j] = s]
    /\ UNCHANGED <<uploadStatus, jobId, jobStatus, isLoading, showUploadModal,
                   uploadedFile, showSuccessNotification, resumes, summary, clusterData,
                   embeddingsData, removedEmbeddingsData, mounted, timers, effTimer,
                   inflight, uploads, fanouts, fetched, terminalSeen, deviated, call, sceneVars, auxVars>>

-----------------------------------------------------------------------------
(* Home: state updates and the polling effect *)

\* A state update of an unmounted component is dropped
Upd(old, new) == IF mounted THEN new ELSE old

UsedTimerIds == {t.id : t \in timers} \cup {r.tid : r \in BagToSet(inflight)}

\* An id for a new interval, unused by any timer or pending callback
FreshTimer ==
    CHOOSE i \in 1..(Cardinality(UsedTimerIds) + 1) :
        /\ i \notin UsedTimerIds
        /\ \A k \in 1..(i - 1) : k \in UsedTimerIds

\* A clearInterval that leaves the interval running
ClearIntervalNoop(ts, id) == ts

\* if (interval) clearInterval(interval)
ClearInterval(ts, id) == {t \in ts : t.id # id}

\* The condition under which the effect starts an interval
ShouldPoll(job, status) == job # NoJob /\ status \in {"processing", "running"}

\* The polling effect after a render with job id nj and job status ns, the handler
\* having set the upload status to us: when a dependency changed, the cleanup of
\* the previous run clears its interval and the effect body runs again.
PollingEffect(nj, ns, us) ==
    LET run == mounted /\ (nj # jobId \/ ns # jobStatus)
        poll == ShouldPoll(nj, ns)
        kept == ClearInterval(timers, effTimer)
    IN  /\ timers' = IF ~run THEN timers
                     ELSE IF poll THEN kept \cup {[id |-> FreshTimer, job |-> nj]}
                     ELSE kept
        /\ effTimer' = IF ~run THEN effTimer
                       ELSE IF poll THEN FreshTimer ELSE NoTimer
        /\ uploadStatus' = IF run /\ poll THEN "processing" ELSE Upd(uploadStatus, us)

-----------------------------------------------------------------------------
(* Home: the completion fan-out *)

\* The order of the fetches after getAvailableDatasets, by dataset flag
Order == <<"cleaned_resumes", "summary", "cluster_analysis", "individual_clusters",
           "unbiased_embeddings_6d", "removed_embeddings_6d">>
Datasets == {Order[i] : i \in DOMAIN Order}

\* The API client function that fetches a dataset
FetchFn(d) ==
    CASE d = "cleaned_resumes" -> "getCleanedResumes"
      [] d = "summary" -> "getUnbiasingSummary"
      [] d = "cluster_analysis" -> "getAllClusterAnalyses"
      [] d = "individual_clusters" -> "getAllClustersInfo"
      [] d = "unbiased_embeddings_6d" -> "getUnbiasedEmbeddingsData"
      [] d = "removed_embeddings_6d" -> "getRemovedEmbeddingsData"

\* The datasets of the upload scenario: resumes, summary and cluster info
ScenarioDatasets == {"cleaned_resumes", "summary", "individual_clusters"}

\* The answers of getAvailableDatasets the model draws from
AvailChoices ==
    {Datasets,
     {},
     {"summary", "individual_clusters", "removed_embeddings_6d"}}

\* Position of a fan-out: awaiting getAvailableDatasets, awaiting the fetch of
\* Order[i] (pc = i), or finished with the first / second reset timeout pending
PcAvailable == 0
PcFirstTimeout == Len(Order) + 1
PcSecondTimeout == Len(Order) + 2

\* The first `if (available.x)` after position i that is taken; 0 when none is
NextFetch(avail, i) ==
    LET later == {k \in (i + 1)..Len(Order) : Order[k] \in avail}
    IN  IF later = {} THEN 0 ELSE CHOOSE k \in later : \A m \in later : k <= m

Bump(n) == IF n < CountCap THEN n + 1 ELSE n

viewVars == <<resumes, summary, clusterData, embeddingsData, removedEmbeddingsData>>
histVars == <<terminalSeen, deviated>>

\* What the fan-out stores when the fetch of dataset d returned `out` for job j
Store(d, out, j) ==
    /\ resumes' = IF d = "cleaned_resumes" /\ out = "data" THEN Upd(resumes, j) ELSE resumes
    /\ summary' = IF d = "summary" /\ out = "data" THEN Upd(summary, j) ELSE summary
    /\ clusterData' = IF d = "individual_clusters" /\ out = "data"
                      THEN Upd(clusterData, j) ELSE clusterData
    /\ embeddingsData' = IF d = "unbiased_embeddings_6d" /\ out = "data"
                         THEN Upd(embeddingsData, j) ELSE embeddingsData
    /\ removedEmbeddingsData' = IF d = "removed_embeddings_6d" /\ out = "data"
                                THEN Upd(removedEmbeddingsData, j)
                                ELSE removedEmbeddingsData

\* The fan-out f after the await at its position returned: what is left of the
\* try block runs up to the next await, or to the two setTimeout calls.
\* A throw leaves the try block for the catch.
Continue(f, out, avail) ==
    LET next == IF out = "throw" THEN 0 ELSE NextFetch(avail, f.pc)
        g == IF next = 0
             THEN [f EXCEPT !.pc = PcFirstTimeout, !.avail = avail]
             ELSE [f EXCEPT !.pc = next, !.avail = avail,
                            !.req = f.req \cup {Order[next]}]
    IN  /\ fanouts' = (fanouts (-) SetToBag({f})) (+) SetToBag({g})
        /\ fetched' = IF next = 0 \/ f.job # LastJob THEN fetched
                      ELSE [fetched EXCEPT ![Order[next]] = Bump(@)]
        /\ isLoading' = IF next = 0 THEN Upd(isLoading, FALSE) ELSE isLoading

\* An inner catch that reports the failure as the outer catch does
AfterFetchError(us, out) == IF out = "throw" THEN "error" ELSE us

\* The upload status after a fan-out fetch returned `out`: the inner catch only logs
AfterFetch(us, out) == us

\* The response to the fan-out's pending request arrives
FanoutStep(f, http, avails) ==
    /\ f \in BagToSet(fanouts)
    /\ f.pc < PcFirstTimeout
    /\ IF f.pc = PcAvailable
       THEN LET r == ApiCall("getAvailableDatasets", f.job, http)
            IN  /\ \E a \in (IF r.out = "data" THEN avails ELSE {{}}) :
                      /\ Continue(f, r.out, a)
                      /\ deviated' = (deviated \/ (f.job = LastJob
                                                    /\ ~(ScenarioDatasets \subseteq a)))
                /\ uploadStatus' = AfterFetch(uploadStatus, r.out)
                /\ UNCHANGED viewVars
       ELSE LET r == ApiCall(FetchFn(Order[f.pc]), f.job, http)
            IN  /\ Continue(f, r.out, f.avail)
                /\ Store(Order[f.pc], r.out, f.job)
                /\ uploadStatus' = AfterFetch(uploadStatus, r.out)
                /\ UNCHANGED deviated
    /\ UNCHANGED <<jobId, jobStatus, showUploadModal, uploadedFile,
                   showSuccessNotification, mounted, timers, effTimer, inflight,
                   uploads, serverStatus, terminalSeen, call, sceneVars, auxVars>>

\* setTimeout(() => { setJobId(null); setJobStatus(null) }, 2000)
ClearJobTimeout(f) ==
    /\ f \in BagToSet(fanouts)
    /\ f.pc = PcFirstTimeout
    /\ fanouts' = (fanouts (-) SetToBag({f})) (+) SetToBag({[f EXCEPT !.pc = PcSecondTimeout]})
    /\ jobId' = Upd(jobId, NoJob)
    /\ jobStatus' = Upd(jobStatus, "null")
    /\ PollingEffect(Upd(jobId, NoJob), Upd(jobStatus, "null"), uploadStatus)
    /\ UNCHANGED <<isLoading, showUploadModal, uploadedFile, showSuccessNotification,
                   viewVars, mounted, inflight, uploads, serverStatus, fetched,
                   histVars, call, sceneVars, auxVars>>

\* setTimeout(() => { setUploadStatus("idle"); setShowSuccessNotification(false) }, 2000)
ClearStatusTimeout(f) ==
    /\ f \in BagToSet(fanouts)
    /\ f.pc = PcSecondTimeout
    /\ fanouts' = fanouts (-) SetToBag({f})
    /\ uploadStatus' = Upd(uploadStatus, "idle")
    /\ showSuccessNotification' = Upd(showSuccessNotification, FALSE)
    /\ UNCHANGED <<jobId, jobStatus, isLoading, showUploadModal, uploadedFile, viewVars,
                   mounted, timers, effTimer, inflight, uploads, serverStatus, fetched,
                   histVars, call, sceneVars, auxVars>>

-----------------------------------------------------------------------------
(* Home: the polling interval *)

\* The interval callback up to `await getJobStatus(jobId)`
\* (late: status responses may take longer than the interval, so that a tick
\* finds earlier requests still awaiting their response)
Tick(t, http, late) ==
    /\ t \in timers
    /\ IF late THEN BagCardinality(inflight) < MaxInFlight ELSE inflight = EmptyBag
    /\ t.job # NoJob
    /\ LET r == ApiCall("getJobStatus", t.job, http)
           resp == IF r.out = "data" THEN serverStatus[t.job] ELSE "throw"
       IN  inflight' = inflight (+) SetToBag({[job |-> t.job, tid |-> t.id, resp |-> resp]})
    /\ UNCHANGED <<uploadStatus, jobId, jobStatus, isLoading, showUploadModal,
                   uploadedFile, showSuccessNotification, viewVars, mounted, timers,
                   effTimer, uploads, fanouts, serverStatus, fetched, histVars, call, sceneVars, auxVars>>

\* The interval callback after `await getJobStatus(jobId)`, up to its next await
StatusResponse(r) ==
    /\ r \in BagToSet(inflight)
    /\ r.resp = "completed" => BagCardinality(fanouts) < MaxFanouts
    /\ inflight' = inflight (-) SetToBag({r})
    /\ IF r.resp = "throw"
       THEN /\ uploadStatus' = Upd(uploadStatus, "error")
            /\ timers' = ClearInterval(timers, r.tid)
            /\ deviated' = (deviated \/ r.job = LastJob)
            /\ UNCHANGED <<jobStatus, isLoading, showSuccessNotification, effTimer,
                           fanouts, terminalSeen>>
       ELSE /\ jobStatus' = Upd(jobStatus, r.resp)
            /\ PollingEffect(jobId, Upd(jobStatus, r.resp),
                             CASE r.resp = "completed" -> "complete"
                               [] r.resp = "failed" -> "error"
                               [] OTHER -> uploadStatus)
            /\ showSuccessNotification' =
                  IF r.resp = "completed" THEN Upd(showSuccessNotification, TRUE)
                  ELSE showSuccessNotification
            /\ isLoading' = IF r.resp = "failed" THEN Upd(isLoading, FALSE) ELSE isLoading
            /\ fanouts' =
                  IF r.resp = "completed"
                  THEN fanouts (+) SetToBag({[job |-> r.job, pc |-> PcAvailable,
                                              avail |-> {}, req |-> {}]})
                  ELSE fanouts
            /\ terminalSeen' = (terminalSeen \/ (r.job = LastJob
                                                  /\ r.resp \in {"completed", "failed"}))
            /\ deviated' = (deviated \/ (r.job = LastJob
                                          /\ r.resp \notin {"processing", "completed"}))
    /\ UNCHANGED <<jobId, showUploadModal, uploadedFile, viewVars, mounted, uploads,
                   serverStatus, fetched, call, sceneVars, auxVars>>

-----------------------------------------------------------------------------
(* Home: the user's actions *)

\* The progress / error overlay and the upload dialog cover the whole window
\* (fixed inset-0 z-50) above the buttons of the page (z-20)
OverlayShown == uploadStatus \notin {"idle", "complete"}

\* The Upload button
handleUpload ==
    /\ mounted
    /\ ~OverlayShown
    /\ ~showUploadModal
    /\ jobId' = NoJob
    /\ jobStatus' = "null"
    /\ PollingEffect(NoJob, "null", "idle")
    /\ embeddingsData' = NoJob
    /\ removedEmbeddingsData' = NoJob
    /\ clusterData' = NoJob
    /\ summary' = NoJob
    /\ showUploadModal' = TRUE
    /\ UNCHANGED <<isLoading, uploadedFile, showSuccessNotification, resumes, mounted,
                   inflight, uploads, fanouts, serverStatus, fetched, histVars, call, sceneVars, auxVars>>

\* The close and Cancel buttons of the upload dialog
closeUploadModal ==
    /\ mounted
    /\ showUploadModal
    /\ showUploadModal' = FALSE
    /\ UNCHANGED <<uploadStatus, jobId, jobStatus, isLoading, uploadedFile,
                   showSuccessNotification, viewVars, mounted, timers, effTimer,
                   inflight, uploads, fanouts, serverStatus, fetched, histVars, call, sceneVars, auxVars>>

\* What handleFileChange and handleDrop do with the file they are given
SelectFile(file) ==
    /\ uploadedFile' = IF Rejected(file) THEN uploadedFile ELSE file
    /\ UNCHANGED <<uploadStatus, jobId, jobStatus, isLoading, showUploadModal,
                   showSuccessNotification, viewVars, mounted, timers, effTimer,
                   inflight, uploads, fanouts, serverStatus, fetched, histVars, call, sceneVars, auxVars>>

\* A file is chosen through the file input of the dialog
handleFileChange(file) ==
    /\ mounted
    /\ showUploadModal
    /\ SelectFile(file)

\* A file is dropped on the drop zone of the dialog
handleDrop(file) ==
    /\ mounted
    /\ showUploadModal
    /\ SelectFile(file)

\* The Process CSV button (disabled={!uploadedFile || isLoading}), up to
\* `await uploadDataset(uploadedFile, clusterCount)`
processUpload ==
    /\ mounted
    /\ showUploadModal
    /\ ~isLoading
    /\ uploadedFile # NoFile
    /\ isLoading' = TRUE
    /\ showUploadModal' = FALSE
    /\ uploadStatus' = "uploading"
    /\ uploads' = uploads (+) SetToBag({[file |-> uploadedFile]})
    /\ UNCHANGED <<jobId, jobStatus, uploadedFile, showSuccessNotification, viewVars,
                   mounted, timers, effTimer, inflight, fanouts, serverStatus, fetched,
                   histVars, call, sceneVars, auxVars>>

\* The statuses a job can have on the backend when the upload returns
InitialServerStatuses == {"processing"}

\* processUpload after `await uploadDataset`: with a job id in the response the
\* job is polled, otherwise (no job id, or the call threw) the status is error
\* (jobs: the job ids the backend can hand out)
UploadResponse(u, http, hasJobId, jobs) ==
    /\ u \in BagToSet(uploads)
    /\ uploads' = uploads (-) SetToBag({u})
    /\ IF ApiCall("uploadDataset", NoJob, http).out = "data" /\ hasJobId
       THEN \E j \in jobs, s \in InitialServerStatuses :
               /\ j \notin Created
               /\ \A k \in 1..(j - 1) : k \in Created
               /\ serverStatus' = [serverStatus EXCEPT ![j] = s]
               /\ jobId' = Upd(jobId, j)
               /\ jobStatus' = Upd(jobStatus, "processing")
               /\ PollingEffect(Upd(jobId, j), Upd(jobStatus, "processing"), "processing")
               /\ fetched' = [d \in Datasets |-> 0]
               /\ terminalSeen' = FALSE
               /\ deviated' = FALSE
       ELSE /\ uploadStatus' = Upd(uploadStatus, "error")
            /\ UNCHANGED <<jobId, jobStatus, timers, effTimer, serverStatus, fetched,
                           histVars>>
    /\ UNCHANGED <<isLoading, showUploadModal, uploadedFile, showSuccessNotification,
                   viewVars, mounted, inflight, fanouts, call, sceneVars, auxVars>>

\* The Close button of the error overlay
closeError ==
    /\ mounted
    /\ uploadStatus = "error"
    /\ ~showUploadModal
    /\ uploadStatus' = "idle"
    /\ UNCHANGED <<jobId, jobStatus, isLoading, showUploadModal, uploadedFile,
                   showSuccessNotification, viewVars, mounted, timers, effTimer,
                   inflight, uploads, fanouts, serverStatus, fetched, histVars, call, sceneVars, auxVars>>

\* The component unmounts: the cleanup of the polling effect runs
Unmount ==
    /\ mounted
    /\ mounted' = FALSE
    /\ timers' = ClearInterval(timers, effTimer)
    /\ UNCHANGED <<uploadStatus, jobId, jobStatus, isLoading, showUploadModal,
                   uploadedFile, showSuccessNotification, viewVars, effTimer, inflight,
                   uploads, fanouts, serverStatus, fetched, histVars, call, sceneVars, auxVars>>

-----------------------------------------------------------------------------
(* Home: the Get Unbiased Data, Download Summary and Fetch Embeddings Info  *)
(* buttons.  With no job id a handler alerts and returns: no state changes. *)

ButtonHandlers == {"handleFilter", "handleDownload", "fetchEmbeddings"}

\* The API client function a handler awaits at position pc
HandlerFn(fn, pc) ==
    CASE fn \in {"handleFilter", "handleDownload"} -> "downloadFile"
      [] fn = "fetchEmbeddings" /\ pc = 1 -> "getUnbiasedEmbeddingsData"
      [] fn = "fetchEmbeddings" /\ pc = 2 -> "getRemovedEmbeddingsData"
      [] fn = "fetchEmbeddings" /\ pc = 3 -> "getAllClustersInfo"

LastPc(fn) == IF fn = "fetchEmbeddings" THEN 3 ELSE 1

\* A button handler up to its first await: if (!jobId) return; setIsLoading(true)
StartHandler(fn) ==
    /\ mounted
    /\ ~OverlayShown
    /\ ~showUploadModal
    /\ jobId # NoJob
    /\ BagCardinality(pending) < MaxPending
    /\ isLoading' = TRUE
    /\ pending' = pending (+) SetToBag({[fn |-> fn, job |-> jobId, pc |-> 1]})
    /\ UNCHANGED <<uploadStatus, jobId, jobStatus, showUploadModal, uploadedFile,
                   showSuccessNotification, viewVars, mounted, timers, effTimer,
                   inflight, uploads, fanouts, serverStatus, fetched, histVars, call,
                   sceneVars, biasVars, pickVars, extraVars>>

\* A button handler after an await returned: fetchEmbeddings stores what it
\* got and goes on to its next await; a throw, or the end of the try block,
\* runs finally { setIsLoading(false) }
HandlerResponse(h, http) ==
    /\ h \in BagToSet(pending)
    /\ LET out == ApiCall(HandlerFn(h.fn, h.pc), h.job, http).out
           done == out = "throw" \/ h.pc = LastPc(h.fn)
           stored == h.fn = "fetchEmbeddings" /\ out # "throw"
       IN  /\ pending' = IF done THEN pending (-) SetToBag({h})
                         ELSE (pending (-) SetToBag({h}))
                                 (+) SetToBag({[h EXCEPT !.pc = h.pc + 1]})
           /\ isLoading' = IF done THEN Upd(isLoading, FALSE) ELSE isLoading
           /\ embeddingsData' = IF stored /\ h.pc = 1 THEN Upd(embeddingsData, h.job)
                                ELSE embeddingsData
           /\ removedEmbeddingsData' =
                 IF stored /\ h.pc = 2 THEN Upd(removedEmbeddingsData, h.job)
                 ELSE removedEmbeddingsData
           /\ clusterData' = IF stored /\ h.pc = 3 THEN Upd(clusterData, h.job)
                             ELSE clusterData
    /\ UNCHANGED <<uploadStatus, jobId, jobStatus, showUploadModal, uploadedFile,
                   showSuccessNotification, resumes, summary, mounted, timers, effTimer,
                   inflight, uploads, fanouts, serverStatus, fetched, histVars, call,
                   sceneVars, biasVars, pickVars, extraVars>>

HandlerIdle == pending = EmptyBag

-----------------------------------------------------------------------------
(* Specifications *)

HomeInit ==
    /\ uploadStatus = "idle"
    /\ jobId = NoJob
    /\ jobStatus = "null"
    /\ isLoading = FALSE
    /\ showUploadModal = FALSE
    /\ uploadedFile = NoFile
    /\ showSuccessNotification = FALSE
    /\ resumes = NoJob
    /\ summary = NoJob
    /\ clusterData = NoJob
    /\ embeddingsData = NoJob
    /\ removedEmbeddingsData = NoJob
    /\ mounted = TRUE
    /\ timers = {}
    /\ effTimer = NoTimer
    /\ inflight = EmptyBag
    /\ uploads = EmptyBag
    /\ fanouts = EmptyBag
    /\ serverStatus = [j \in Jobs |-> "none"]
    /\ fetched = [d \in Datasets |-> 0]
    /\ terminalSeen = FALSE
    /\ deviated = FALSE

-----------------------------------------------------------------------------
\* SphereScene: embedding rows to spheres.  An embedding value is an integer
\* count of halves, a sphere coordinate or colour channel an integer count of
\* quarters, so that x * 2.5, x * 2.0 and (v + 1) / 2 are exact.

MaxRows == 3        \* rows of one payload
MaxRowLen == 7      \* numbers of one row

Revisions == {"current", "api"}

NoPayload == [none |-> TRUE]
Null == [null |-> TRUE]
NaN == -1000

\* a row of n numbers
Row(n) == [i \in 1..n |-> i - n]
RowLens == {0, 5} \cup 6..MaxRowLen
Rows == {Row(n) : n \in RowLens}
RowSeqs == UNION {[1..k -> Rows] : k \in 0..MaxRows}
Payloads == {NoPayload} \cup {[embeddings |-> e] : e \in RowSeqs}

\* emb[i - 1] of JavaScript: undefined past the end, NaN in arithmetic
At(emb, i) == IF i \in 1..Len(emb) THEN emb[i] ELSE NaN

\* (v + 1) / 2, halves to quarters
Normalize(v) == IF v = NaN THEN NaN ELSE v + 2

SCALE == 5          \* 2.5: halves to quarters
SCALE_FACTOR == 4   \* 2.0: halves to quarters
Scaled(v, scale) == IF v = NaN THEN NaN ELSE v * scale

\* the guard of the mutant of EnoughDimensions: one number short
FiveDimensions(emb) == Len(emb) >= 5

EnoughDimensions(emb) == Len(emb) >= 6

ConvertRow(emb) ==
    IF ~EnoughDimensions(emb) THEN Null
    ELSE [x |-> At(emb, 1), y |-> At(emb, 2), z |-> At(emb, 3),
          r |-> Normalize(At(emb, 4)), g |-> Normalize(At(emb, 5)),
          b |-> Normalize(At(emb, 6))]

FilterBoolean(points) == SelectSeq(points, LAMBDA pt : pt # Null)

ConvertEmbeddings(embeddings) ==
    FilterBoolean([i \in 1..Len(embeddings) |-> ConvertRow(embeddings[i])])

Mesh(x, y, z, r, g, b, scale) ==
    [position |-> <<Scaled(x, scale), Scaled(y, scale), Scaled(z, scale)>>,
     color |-> <<r, g, b>>]

CreateSpheres(points) ==
    [i \in 1..Len(points) |->
        Mesh(points[i].x, points[i].y, points[i].z,
             points[i].r, points[i].g, points[i].b, SCALE)]

\* embeddings.forEach(...) adding one mesh per row that passes the guard
RECURSIVE ForEachEmbedding(_, _, _)
ForEachEmbedding(embeddings, group, scale) ==
    IF embeddings = <<>> THEN group
    ELSE LET emb == Head(embeddings)
         IN  ForEachEmbedding(Tail(embeddings),
                 IF EnoughDimensions(emb)
                 THEN Append(group,
                          Mesh(At(emb, 1), At(emb, 2), At(emb, 3),
                               Normalize(At(emb, 4)), Normalize(At(emb, 5)),
                               Normalize(At(emb, 6)), scale))
                 ELSE group,
                 scale)

StaleCap == 4       \* objects counted in stale

GroupKinds == {"unbiased", "removed", "clusters", "lines"}
NoGroups == [k \in GroupKinds |-> 0]
NoCluster == -1
AllVisible == [c \in 1..2 |-> TRUE]

\* scene.add(group) and scene.remove(group)
SceneAdd(groups, k) == [groups EXCEPT ![k] = @ + 1]
SceneRemove(groups, k) == [groups EXCEPT ![k] = IF @ > 0 THEN @ - 1 ELSE 0]

\* n objects leave the scene with their geometry and material not disposed
Leak(n) == IF stale + n > StaleCap THEN StaleCap ELSE stale + n

\* group.traverse(obj => obj.geometry.dispose(); obj.material.dispose()) on
\* a group of n objects
Dispose(n) == stale

\* The unbiasedEmbeddings prop changes: the conversion effect stores the data
\* points, the render that follows replaces the sphere group
SetUnbiasedEmbeddings(p) ==
    /\ scene = "mounted"
    /\ revision \in Revisions
    /\ unbiasedEmbeddings' = p
    /\ IF p = NoPayload
       THEN UNCHANGED <<apiDataPoints, spheres, sceneGroups, stale>>
       ELSE IF revision = "current"
            THEN \* cleanup of the sphere creation effect, then its new run
                 /\ apiDataPoints' = ConvertEmbeddings(p.embeddings)
                 /\ stale' = Dispose(Len(spheres))
                 /\ spheres' = CreateSpheres(apiDataPoints')
                 /\ sceneGroups' = SceneAdd(SceneRemove(sceneGroups, "unbiased"), "unbiased")
            ELSE \* pointsRef.current is removed from the scene, not disposed
                 /\ stale' = Leak(Len(spheres))
                 /\ spheres' = ForEachEmbedding(p.embeddings, <<>>, SCALE_FACTOR)
                 /\ sceneGroups' = SceneAdd(SceneRemove(sceneGroups, "unbiased"), "unbiased")
                 /\ UNCHANGED apiDataPoints
    /\ UNCHANGED <<revision, removedEmbeddings, removedSpheres, linkVars, colorVars,
                   scene, listeners, activeCluster, visibleClusters, mockConnections,
                   camVars>>

\* The removedEmbeddings prop changes
SetRemovedEmbeddings(p) ==
    /\ scene = "mounted"
    /\ revision \in Revisions
    /\ removedEmbeddings' = p
    /\ IF revision = "current"
       THEN \* the cleanup of the previous run, then the new run
            /\ stale' = Dispose(Len(removedSpheres))
            /\ removedSpheres' = IF p = NoPayload THEN <<>>
                                  ELSE ForEachEmbedding(p.embeddings, <<>>, SCALE)
            /\ sceneGroups' = IF p = NoPayload THEN SceneRemove(sceneGroups, "removed")
                               ELSE SceneAdd(SceneRemove(sceneGroups, "removed"), "removed")
       ELSE IF p = NoPayload
            THEN UNCHANGED <<removedSpheres, sceneGroups, stale>>
            ELSE /\ stale' = Dispose(Len(removedSpheres))
                 /\ removedSpheres' = ForEachEmbedding(p.embeddings, <<>>, SCALE_FACTOR)
                 /\ sceneGroups' = SceneAdd(SceneRemove(sceneGroups, "removed"), "removed")
    /\ UNCHANGED <<revision, unbiasedEmbeddings, apiDataPoints, spheres, linkVars, colorVars,
                   scene, listeners, activeCluster, visibleClusters, mockConnections,
                   camVars>>

EmbIdle ==
    /\ unbiasedEmbeddings = NoPayload
    /\ removedEmbeddings = NoPayload
    /\ apiDataPoints = <<>>
    /\ spheres = <<>>
    /\ removedSpheres = <<>>

-----------------------------------------------------------------------------
\* SphereScene: nearest-neighbour connection lines of the cluster visualization.
\* Positions are integer counts of quarters of a scene unit; a distance is kept
\* as its square, which orders and compares as its square root does.

MaxNodes == 5       \* embeddings of the first cluster

MAX_CONNECTIONS_PER_NODE == 3
ConnectDistance == 8     \* 2 scene units, in quarters
Infinity == 1000000

\* embeddings a cluster may hold: four placements and one of two numbers only
NodeEmbeddings == {<<0, 0, 0>>, <<1, 0, 0>>, <<0, 1, 0>>, <<2, 0, 0>>, <<0, 0>>}
ClusterInputs ==
    {<<a, b>> : a \in UNION {[1..k -> NodeEmbeddings] : k \in 0..MaxNodes},
                b \in {<<>>, << <<0, 0, 0>> >>}}

\* clusterInfo.embeddings.forEach: one mesh per embedding of 3 or more numbers
RECURSIVE ClusterNodes(_)
ClusterNodes(embeddings) ==
    IF embeddings = <<>> THEN <<>>
    ELSE LET embedding == Head(embeddings)
         IN  IF Len(embedding) < 3 THEN ClusterNodes(Tail(embeddings))
             ELSE << <<embedding[1] * SCALE, embedding[2] * SCALE, embedding[3] * SCALE>> >>
                  \o ClusterNodes(Tail(embeddings))

Square(v) == v * v

\* the mutant of Distance: a node is at distance 0 of itself
DistanceWithSelf(clusterNodes, i, j) ==
    Square(clusterNodes[i][1] - clusterNodes[j][1])
    + Square(clusterNodes[i][2] - clusterNodes[j][2])
    + Square(clusterNodes[i][3] - clusterNodes[j][3])

\* the callback of clusterNodes.map: the (squared) distance from i to j
Distance(clusterNodes, i, j) ==
    IF i = j THEN Infinity
    ELSE Square(clusterNodes[i][1] - clusterNodes[j][1])
         + Square(clusterNodes[i][2] - clusterNodes[j][2])
         + Square(clusterNodes[i][3] - clusterNodes[j][3])

\* Array.prototype.sort by ascending distance; the sort is stable
RECURSIVE InsertByDistance(_, _)
InsertByDistance(e, sorted) ==
    IF sorted = <<>> THEN <<e>>
    ELSE IF e.distance < Head(sorted).distance THEN <<e>> \o sorted
         ELSE <<Head(sorted)>> \o InsertByDistance(e, Tail(sorted))

RECURSIVE SortByDistance(_)
SortByDistance(entries) ==
    IF entries = <<>> THEN <<>>
    ELSE InsertByDistance(entries[Len(entries)],
                          SortByDistance(SubSeq(entries, 1, Len(entries) - 1)))

\* the mutant of Slice: every entry is kept
NoSlice(entries, n) == entries

Slice(entries, n) == SubSeq(entries, 1, IF Len(entries) < n THEN Len(entries) ELSE n)

\* the entries a node draws a line to
Closest(clusterNodes, i) ==
    LET distances ==
            Slice(SortByDistance([j \in 1..Len(clusterNodes) |->
                      [index |-> j, distance |-> Distance(clusterNodes, i, j)]]),
                  MAX_CONNECTIONS_PER_NODE)
    IN  {distances[k].index : k \in {k \in 1..Len(distances) :
            ~(distances[k].distance > Square(ConnectDistance))}}

\* the lines of cluster c: from each node to its closest nodes of clusterNodes
ClusterLines(c, clusterNodes) ==
    UNION {{[from |-> <<c, i>>, to |-> <<c, j>>] : j \in Closest(clusterNodes, i)} :
              i \in 1..Len(clusterNodes)}

\* how many meshes the groups hold
NodeCount(groups) ==
    Cardinality(UNION {{<<c, i>> : i \in 1..Len(groups[c])} : c \in DOMAIN groups})

CanvasListeners == {"canvas:mousemove", "canvas:mouseleave"}

\* The cluster visualization effect after a change of its dependencies: the
\* cleanup of its previous run, then its run on clusters cs with visibility vis
ClusterEffect(cs, vis) ==
    /\ stale' = Dispose(NodeCount(allClustersGroup) + Cardinality(allLinesGroup))
    /\ IF cs = NoPayload
       THEN /\ allClustersGroup' = <<>>
            /\ allLinesGroup' = {}
            /\ sceneGroups' = SceneRemove(SceneRemove(sceneGroups, "clusters"), "lines")
            /\ listeners' = listeners \ CanvasListeners
       ELSE /\ allClustersGroup' = [c \in 1..Len(cs.clusters) |->
                                      IF vis[c] = FALSE THEN <<>>
                                      ELSE ClusterNodes(cs.clusters[c])]
            /\ allLinesGroup' = UNION {ClusterLines(c, allClustersGroup'[c]) :
                                          c \in 1..Len(cs.clusters)}
            /\ sceneGroups' = SceneAdd(SceneAdd(SceneRemove(SceneRemove(sceneGroups,
                                  "clusters"), "lines"), "clusters"), "lines")
            /\ listeners' = (listeners \ CanvasListeners) \cup CanvasListeners

\* The clusterEmbeddings prop changes: the visibility effect makes every cluster
\* visible, the cluster visualization effect rebuilds its groups
SetClusterEmbeddings(cs) ==
    /\ scene = "mounted"
    /\ revision = "current"
    /\ clusterEmbeddings' = cs
    /\ visibleClusters' = IF cs = NoPayload THEN visibleClusters ELSE AllVisible
    /\ ClusterEffect(cs, visibleClusters')
    /\ UNCHANGED <<revision, embVars, colorVars, scene, activeCluster, mockConnections,
                   camVars>>

toggleClusterVisibility(c) ==
    /\ scene = "mounted"
    /\ revision = "current"
    /\ clusterEmbeddings # NoPayload
    /\ visibleClusters' = [visibleClusters EXCEPT ![c] = ~@]
    /\ ClusterEffect(clusterEmbeddings, visibleClusters')
    /\ UNCHANGED <<revision, embVars, clusterEmbeddings, colorVars, scene, activeCluster,
                   mockConnections, camVars>>

LinkIdle ==
    /\ clusterEmbeddings = NoPayload
    /\ allClustersGroup = <<>>
    /\ allLinesGroup = {}

-----------------------------------------------------------------------------
\* SphereScene: the colour of a sphere.  Hue is an integer count of degrees,
\* saturation and brightness integer percentages; a colour channel is an
\* integer count of 1/600000, so that b * s / 10^4 and the division of the hue
\* by 60 are exact.

MaxCluster == 7       \* cluster ids of a data point
MaxHueSteps == 24     \* hues, in steps of 15 degrees on both sides of 0

One == 600000

Hues == {15 * k : k \in -MaxHueSteps..MaxHueSteps}
Percents == {0, 50, 100}

\* a % n of JavaScript: the result has the sign of a
JsRem(a, n) == IF a >= 0 THEN a % n ELSE -((-a) % n)

Abs(v) == IF v < 0 THEN -v ELSE v

\* the mutant of HueRamp: the absolute value is left out
HueRampNoAbs(h) == 60 - (JsRem(h, 120) - 60)

\* 60 * (1 - Math.abs(((h / 60) % 2) - 1))
HueRamp(h) == 60 - Abs(JsRem(h, 120) - 60)

hsbToRgb(h0, s, b) ==
    LET h == JsRem(h0, 360)
        c == b * s * 60
        x == b * s * HueRamp(h)
        m == b * 100 * 60 - c
        rgb == IF h >= 0 /\ h < 60 THEN <<c, x, 0>>
               ELSE IF h >= 60 /\ h < 120 THEN <<x, c, 0>>
               ELSE IF h >= 120 /\ h < 180 THEN <<0, c, x>>
               ELSE IF h >= 180 /\ h < 240 THEN <<0, x, c>>
               ELSE IF h >= 240 /\ h < 300 THEN <<x, 0, c>>
               ELSE <<c, 0, x>>
    IN  <<rgb[1] + m, rgb[2] + m, rgb[3] + m>>

ColorRevisions == {"first", "cluster", "api", "current"}

\* clusterColors.length
PaletteLength(rev) == IF rev = "current" THEN 10 ELSE 6

NotColored == [kind |-> "none", entry |-> 0, rgb |-> <<0, 0, 0>>]
PaletteColor(k) == [kind |-> "palette", entry |-> k, rgb |-> <<0, 0, 0>>]
HsbColor(v) == [kind |-> "hsb", entry |-> 0, rgb |-> v]
TypeError == [kind |-> "TypeError", entry |-> 0, rgb |-> <<0, 0, 0>>]

\* dataPoint.cluster || 0 % clusterColors.length: % binds tighter than ||
ClusterOrZero(point, rev) ==
    IF point.hasCluster /\ point.cluster # 0 THEN point.cluster
    ELSE JsRem(0, PaletteLength(rev))

\* the data points a revision may be given
DataPoints(rev) ==
    IF rev = "first"
    THEN {[hasCluster |-> FALSE, cluster |-> 0, clusterIndex |-> 0,
           h |-> h, s |-> s, b |-> b] : h \in Hues, s \in Percents, b \in Percents}
    ELSE IF rev = "current"
    THEN {[hasCluster |-> TRUE, cluster |-> c, clusterIndex |-> i,
           h |-> 0, s |-> 0, b |-> 0] : c \in 0..MaxCluster, i \in 0..MaxCluster}
    ELSE {[hasCluster |-> FALSE, cluster |-> 0, clusterIndex |-> 0,
           h |-> h, s |-> s, b |-> b] : h \in Hues, s \in Percents, b \in Percents}
         \cup {[hasCluster |-> TRUE, cluster |-> c, clusterIndex |-> 0,
                h |-> 0, s |-> 0, b |-> 0] : c \in 0..MaxCluster}

\* The colour chosen for the sphere of dataPoint
ColorSphere ==
    /\ rgbColor' =
          IF revision = "first"
          THEN HsbColor(hsbToRgb(dataPoint.h, dataPoint.s, dataPoint.b))
          ELSE IF revision = "current"
          THEN PaletteColor(JsRem(dataPoint.clusterIndex, PaletteLength(revision)))
          ELSE LET k == ClusterOrZero(dataPoint, revision)
               IN  IF ~dataPoint.hasCluster
                   THEN HsbColor(hsbToRgb(dataPoint.h, dataPoint.s, dataPoint.b))
                   ELSE IF k \in 0..(PaletteLength(revision) - 1)
                        THEN PaletteColor(k)
                        ELSE TypeError
    /\ UNCHANGED <<revision, embVars, linkVars, dataPoint, lifeVars, camVars>>

ColorIdle ==
    /\ dataPoint = [hasCluster |-> FALSE, cluster |-> 0, clusterIndex |-> 0,
                    h |-> 0, s |-> 0, b |-> 0]
    /\ rgbColor = NotColored

-----------------------------------------------------------------------------
\* SphereScene: mounting, rebuilding and unmounting the scene.

LifeRevisions == {"cluster", "api", "current"}

\* Camera distances are integer counts of halves of a scene unit, the zoom step
MaxRecenters == 1     \* recenter animations running at once
AnimFrames == 2       \* values of easeProgress a frame may see, up to 1

zoomStep == 1
MinZ(rev) == IF rev = "first" THEN 4 ELSE 6           \* Math.max(2, ..), Math.max(3, ..)
MaxZ(rev) == IF rev = "first" THEN 30 ELSE 40         \* Math.min(15, ..), Math.min(20, ..)
InitialZ(rev) == IF rev = "first" THEN 16 ELSE 24     \* useRef({ z: 8 }), useRef({ z: 12 })
targetZ(rev) == IF rev = "first" THEN 16 ELSE 24      \* 8, 12
CurrentCameraZ == 12                                  \* camera.position.z = 6

\* the mutant of Clamp: no limit is applied
NoClamp(z, rev) == z

\* Math.max(min, Math.min(max, z))
Clamp(z, rev) ==
    LET capped == IF z < MaxZ(rev) THEN z ELSE MaxZ(rev)
    IN  IF capped > MinZ(rev) THEN capped ELSE MinZ(rev)

\* startZ + (targetZ - startZ) * easeProgress, easeProgress being k / AnimFrames
Interpolated(startZ, k, rev) ==
    startZ + ((targetZ(rev) - startZ) * k) \div AnimFrames

WindowListeners ==
    {"window:resize", "window:wheel", "window:mousedown", "window:mousemove",
     "window:mouseup", "window:touchstart", "window:touchmove", "window:touchend"}

\* cluster and API revisions: three mock data points, two of cluster 0
\* with the connections the module may draw between them, and one of cluster 1
MockNodes == << <<0, 0, 0>>, <<SCALE, 0, 0>>, <<0, SCALE, 0>> >>
mockClusters == <<0, 0, 1>>
MockPairs == {<<1, 2>>, <<2, 1>>}
MockClusters == {0, 1}

\* createConnectionLines: with an active cluster, only the lines that touch it
createConnectionLines(active) ==
    IF active = NoCluster \/ active = 0
    THEN {[from |-> <<1, pr[1]>>, to |-> <<1, pr[2]>>] : pr \in mockConnections}
    ELSE {}

\* The component mounts, its props still null: the scene is set up and, in the
\* cluster and API revisions, the mock spheres and their lines are created
MountScene ==
    /\ scene = "none"
    /\ scene' = "mounted"
    /\ IF revision = "current"
       THEN /\ sceneGroups' = SceneAdd(NoGroups, "unbiased")
            /\ listeners' = {}
            /\ cameraZ' = CurrentCameraZ
            /\ UNCHANGED <<allClustersGroup, allLinesGroup>>
       ELSE /\ allClustersGroup' = <<MockNodes>>
            /\ allLinesGroup' = createConnectionLines(activeCluster)
            /\ sceneGroups' = IF revision = "first" THEN SceneAdd(NoGroups, "clusters")
                               ELSE SceneAdd(SceneAdd(NoGroups, "clusters"), "lines")
            /\ listeners' = WindowListeners
            /\ cameraZ' = cameraPositionRef
    /\ UNCHANGED <<revision, embVars, clusterEmbeddings, colorVars, stale, activeCluster,
                   visibleClusters, mockConnections, cameraPositionRef, recenters>>

\* Cluster revision: activeCluster changes; the cleanup of the scene effect
\* disposes the meshes that are children of sphereGroup, then the effect runs
SetActiveCluster(c) ==
    /\ scene = "mounted"
    /\ revision = "cluster"
    /\ c # activeCluster
    /\ activeCluster' = c
    /\ stale' = Leak(Cardinality(allLinesGroup))
    /\ allLinesGroup' = createConnectionLines(c)
    /\ listeners' = (listeners \ WindowListeners) \cup WindowListeners
    /\ sceneGroups' = SceneAdd(SceneAdd(NoGroups, "clusters"), "lines")
    /\ cameraZ' = cameraPositionRef
    /\ recenters' = {[a EXCEPT !.current = FALSE] : a \in recenters}
    /\ UNCHANGED <<revision, embVars, clusterEmbeddings, allClustersGroup, colorVars,
                   scene, visibleClusters, mockConnections, cameraPositionRef>>

\* The component unmounts: the cleanups of its effects run.  Whether the canvas
\* ref is already detached when they run depends on the React version, which
\* the sources do not fix: canvasRef.current?.removeEventListener either
\* removes the canvas listeners or does nothing
UnmountScene ==
    /\ scene = "mounted"
    /\ scene' = "unmounted"
    /\ IF revision = "current"
       THEN /\ stale' = Dispose(Len(spheres) + Len(removedSpheres)
                                + NodeCount(allClustersGroup) + Cardinality(allLinesGroup))
            /\ listeners' \in {listeners, listeners \ CanvasListeners}
            /\ sceneGroups' = NoGroups
       ELSE IF revision = "cluster"
       THEN /\ stale' = Leak(Cardinality(allLinesGroup))
            /\ listeners' = listeners \ WindowListeners
            /\ sceneGroups' = NoGroups
       ELSE /\ stale' = Leak(Cardinality(allLinesGroup) + Len(spheres) + Len(removedSpheres))
            /\ listeners' = listeners \ WindowListeners
            /\ sceneGroups' = SceneRemove(SceneRemove(sceneGroups, "clusters"), "lines")
    /\ spheres' = <<>>
    /\ removedSpheres' = <<>>
    /\ allClustersGroup' = <<>>
    /\ allLinesGroup' = {}
    /\ UNCHANGED <<revision, unbiasedEmbeddings, removedEmbeddings, apiDataPoints,
                   clusterEmbeddings, colorVars, activeCluster, visibleClusters,
                   mockConnections, camVars>>

\* A wheel event on the window; over tells whether the pointer is over the canvas
handleWheel(zoomIn, over) ==
    /\ scene = "mounted"
    /\ revision \in {"first", "cluster"}
    /\ IF ~over
       THEN UNCHANGED <<cameraZ, cameraPositionRef>>
       ELSE /\ cameraZ' = Clamp(IF zoomIn THEN cameraZ - zoomStep ELSE cameraZ + zoomStep,
                                revision)
            /\ cameraPositionRef' = cameraZ'
    /\ UNCHANGED <<revision, embVars, linkVars, colorVars, lifeVars, recenters>>

\* window.recenterCamera(): an animation from the camera's distance is started;
\* in the cluster revision setActiveCluster(null) re-runs the scene effect when
\* a cluster was active, and the animation keeps the camera it was started on
recenterCamera ==
    /\ scene = "mounted"
    /\ revision \in {"first", "cluster"}
    /\ Cardinality(recenters) < MaxRecenters
    /\ IF revision = "cluster" /\ activeCluster # NoCluster
       THEN /\ activeCluster' = NoCluster
            /\ stale' = Leak(Cardinality(allLinesGroup))
            /\ allLinesGroup' = createConnectionLines(NoCluster)
            /\ cameraZ' = cameraPositionRef
            /\ recenters' = {[a EXCEPT !.current = FALSE] : a \in recenters}
                            \cup {[startZ |-> cameraZ, current |-> FALSE]}
       ELSE /\ recenters' = recenters \cup {[startZ |-> cameraZ, current |-> TRUE]}
            /\ UNCHANGED <<activeCluster, stale, allLinesGroup, cameraZ>>
    /\ UNCHANGED <<revision, embVars, clusterEmbeddings, allClustersGroup, colorVars, scene,
                   listeners, sceneGroups, visibleClusters, mockConnections,
                   cameraPositionRef>>

\* One frame of the recenter animation a, at easeProgress k / AnimFrames: the
\* interpolated distance is written to the animation's camera and to the ref;
\* the frame with progress 1 is the last
animateReset(a, k) ==
    /\ a \in recenters
    /\ k \in 1..AnimFrames
    /\ cameraZ' = IF a.current THEN Interpolated(a.startZ, k, revision) ELSE cameraZ
    /\ cameraPositionRef' = Interpolated(a.startZ, k, revision)
    /\ recenters' = IF k = AnimFrames THEN recenters \ {a} ELSE recenters
    /\ UNCHANGED <<revision, embVars, linkVars, colorVars, lifeVars>>

LifeIdle ==
    /\ scene = "none"
    /\ listeners = {}
    /\ sceneGroups = NoGroups
    /\ stale = 0
    /\ activeCluster = NoCluster
    /\ visibleClusters = AllVisible
    /\ cameraZ = InitialZ(revision)
    /\ cameraPositionRef = InitialZ(revision)
    /\ recenters = {}

SceneIdle ==
    /\ revision = "current"
    /\ EmbIdle
    /\ LinkIdle
    /\ ColorIdle
    /\ LifeIdle
    /\ mockConnections = {}

-----------------------------------------------------------------------------
(* The sphere picker: hover, click and drag.  A sphere is named by its      *)
(* cluster and its index; what the raycaster finds under the pointer is an  *)
(* input of each mouse event.  Pointer positions are in pixels.             *)

MaxPixel == 4          \* the pointer moves on {0, 2, MaxPixel} x {0, MaxPixel}
MaxRotation == 4       \* pixels of rotation a run accumulates, either way
DragThreshold == 3

Points == {<<x, y>> : x \in {0, 2, MaxPixel}, y \in {0, MaxPixel}}
NoSphere == [cluster |-> NoCluster, index |-> 0]
\* a mesh created by an earlier run of the scene effect
StaleSphere == [cluster |-> NoCluster, index |-> -1]

MockSpheres == {[cluster |-> mockClusters[i], index |-> i] : i \in 1..Len(MockNodes)}

\* spheresWithData, or the meshes of allClustersGroup
SceneSpheres ==
    IF scene # "mounted" THEN {}
    ELSE IF revision = "current"
    THEN UNION {{[cluster |-> c, index |-> i] : i \in 1..Len(allClustersGroup[c])} :
                   c \in DOMAIN allClustersGroup}
    ELSE MockSpheres

\* updateSpheresForActiveCluster: isActive of each sphere
ActiveSpheres(active) == {s \in MockSpheres : active # NoCluster /\ s.cluster = active}

\* the forEach of handleSphereClick: isActive of each sphere
ClickActiveSpheres(active) == {s \in MockSpheres : active = NoCluster \/ s.cluster = active}

\* handleSphereHover, over being the sphere the ray hits first, if any
handleSphereHover(over) ==
    /\ isHovered' = (isHovered \ {hoveredSphereRef}) \cup (IF over = NoSphere THEN {} ELSE {over})
    /\ hoveredSphereRef' = over
    /\ hoveredVector' = over

\* the scene effect runs again: new meshes, new closures; the refs stay
PickerRerun(active) ==
    /\ isHovered' = {}
    /\ isActiveCluster' = ActiveSpheres(active)
    /\ pulseIntensity' = ActiveSpheres(active)
    /\ closureCluster' = active
    /\ hoveredSphereRef' = IF hoveredSphereRef = NoSphere THEN NoSphere ELSE StaleSphere

\* setActiveCluster(c) called by a handler of the cluster or API revision,
\* after the handler set the uniforms of `shown` with the cluster it captured
SelectCluster(c, shown) ==
    IF revision = "cluster" /\ c # activeCluster
    THEN /\ SetActiveCluster(c)
         /\ PickerRerun(c)
    ELSE /\ activeCluster' = c
         /\ allLinesGroup' = createConnectionLines(closureCluster)
         /\ isActiveCluster' = shown
         /\ pulseIntensity' = ActiveSpheres(closureCluster)
         /\ UNCHANGED <<isHovered, closureCluster, hoveredSphereRef, revision, embVars,
                        clusterEmbeddings, allClustersGroup, colorVars, scene, listeners,
                        sceneGroups, stale, visibleClusters, mockConnections, camVars>>

\* handleSphereClick with the sphere the ray hits first, if any
handleSphereClick(over) ==
    IF didMoveRef \/ over = NoSphere
    THEN UNCHANGED <<isHovered, isActiveCluster, pulseIntensity, closureCluster,
                     hoveredSphereRef, sceneVars>>
    ELSE SelectCluster(IF closureCluster = over.cluster THEN NoCluster ELSE over.cluster,
                       ClickActiveSpheres(closureCluster))

MockRevision == scene = "mounted" /\ revision \in {"cluster", "api"}

handleMouseDown(p) ==
    /\ MockRevision
    /\ isDraggingRef' = TRUE
    /\ didMoveRef' = FALSE
    /\ previousMousePositionRef' = p
    /\ pressPosition' = p
    /\ UNCHANGED <<isHovered, isActiveCluster, pulseIntensity, closureCluster,
                   hoveredSphereRef, hoveredVector, rotationRef, sceneVars>>

\* Math.abs(deltaX) > 3 || Math.abs(deltaY) > 3
Moved(deltaX, deltaY) == Abs(deltaX) > DragThreshold \/ Abs(deltaY) > DragThreshold

handleMouseMove(p, over) ==
    /\ MockRevision
    /\ handleSphereHover(over)
    /\ IF ~isDraggingRef
       THEN UNCHANGED <<didMoveRef, previousMousePositionRef, rotationRef>>
       ELSE LET deltaX == p[1] - previousMousePositionRef[1]
                deltaY == p[2] - previousMousePositionRef[2]
            IN  /\ Abs(rotationRef[2] + deltaX) <= MaxRotation
                /\ Abs(rotationRef[1] + deltaY) <= MaxRotation
                /\ didMoveRef' = (didMoveRef \/ Moved(deltaX, deltaY))
                /\ rotationRef' = <<rotationRef[1] + deltaY, rotationRef[2] + deltaX>>
                /\ previousMousePositionRef' = p
    /\ UNCHANGED <<isActiveCluster, pulseIntensity, closureCluster, isDraggingRef,
                   pressPosition, sceneVars>>

handleMouseUp(over) ==
    /\ MockRevision
    /\ handleSphereClick(over)
    /\ isDraggingRef' = FALSE
    /\ UNCHANGED <<hoveredVector, didMoveRef, previousMousePositionRef, rotationRef,
                   pressPosition>>

\* a click on the legend entry of cluster c (no sphere lies behind the entry)
handleLegendClick(c) ==
    /\ MockRevision
    /\ c # activeCluster \/ activeCluster # NoCluster
    /\ IF revision = "cluster"
       THEN /\ SetActiveCluster(IF activeCluster = c THEN NoCluster ELSE c)
            /\ PickerRerun(IF activeCluster = c THEN NoCluster ELSE c)
       ELSE /\ activeCluster' = IF activeCluster = c THEN NoCluster ELSE c
            /\ UNCHANGED <<isHovered, isActiveCluster, pulseIntensity, closureCluster,
                           hoveredSphereRef, revision, embVars, linkVars, colorVars,
                           scene, listeners, sceneGroups, stale, visibleClusters,
                           mockConnections, camVars>>
    /\ UNCHANGED <<hoveredVector, isDraggingRef, didMoveRef, previousMousePositionRef,
                   rotationRef, pressPosition>>

\* current revision: mousemove on the canvas
handleCanvasMouseMove(over) ==
    /\ scene = "mounted"
    /\ revision = "current"
    /\ "canvas:mousemove" \in listeners
    /\ handleSphereHover(over)
    /\ UNCHANGED <<isActiveCluster, pulseIntensity, closureCluster, isDraggingRef,
                   didMoveRef, previousMousePositionRef, rotationRef, pressPosition,
                   sceneVars>>

\* current revision: mouseleave on the canvas
handleMouseLeave ==
    /\ scene = "mounted"
    /\ revision = "current"
    /\ "canvas:mouseleave" \in listeners
    /\ handleSphereHover(NoSphere)
    /\ UNCHANGED <<isActiveCluster, pulseIntensity, closureCluster, isDraggingRef,
                   didMoveRef, previousMousePositionRef, rotationRef, pressPosition,
                   sceneVars>>

\* current revision: the cluster effect runs again with new meshes and a new
\* `hoveredNode`; nothing in it touches the state hoveredNode
HoverRerun ==
    /\ isHovered' = {}
    /\ hoveredSphereRef' = NoSphere
    /\ UNCHANGED <<isActiveCluster, pulseIntensity, closureCluster, hoveredVector,
                   isDraggingRef, didMoveRef, previousMousePositionRef, rotationRef,
                   pressPosition>>

PickIdle ==
    /\ isHovered = {}
    /\ isActiveCluster = {}
    /\ pulseIntensity = {}
    /\ closureCluster = NoCluster
    /\ hoveredSphereRef = NoSphere
    /\ hoveredVector = NoSphere
    /\ isDraggingRef = FALSE
    /\ didMoveRef = FALSE
    /\ previousMousePositionRef = <<0, 0>>
    /\ rotationRef = <<0, 0>>
    /\ pressPosition = <<0, 0>>

-----------------------------------------------------------------------------
(* BiasAnalysisScreen: the panel of mock bias statistics.  Statistics are  *)
(* in units of 1/400, so that the mean of the four rows is exact.          *)

MaxBiasCluster == 60
BiasClusters == -MaxBiasCluster..MaxBiasCluster
Undefined == "undefined"
\* activeCluster === null
NullSelection == 1000

clusterBiasData ==
    [i \in 0..3 |->
        CASE i = 0 -> [genderBias |-> 328, ageBias |-> 260, ethnicityBias |-> 312,
                       recommendations |-> "Blue Group"]
          [] i = 1 -> [genderBias |-> 180, ageBias |-> 288, ethnicityBias |-> 252,
                       recommendations |-> "Red Group"]
          [] i = 2 -> [genderBias |-> 268, ageBias |-> 232, ethnicityBias |-> 356,
                       recommendations |-> "Yellow Group"]
          [] i = 3 -> [genderBias |-> 284, ageBias |-> 196, ethnicityBias |-> 208,
                       recommendations |-> "Green Group"]]

clusterNames ==
    [i \in 0..3 |->
        CASE i = 0 -> "Blue Group" [] i = 1 -> "Red Group"
          [] i = 2 -> "Yellow Group" [] i = 3 -> "Green Group"]

TableLength == 4

\* array[i] of JavaScript: undefined outside the array
Index(array, i) == IF i \in DOMAIN array THEN array[i] ELSE Undefined

getClusterName(clusterId) ==
    IF clusterId = NullSelection THEN "All Clusters"
    ELSE Index(clusterNames, JsRem(clusterId, TableLength))

\* reduce((sum, data) => sum + data[field], 0) over the rows in order
RECURSIVE SumField(_, _)
SumField(field, n) ==
    IF n = 0 THEN 0 ELSE SumField(field, n - 1) + clusterBiasData[n - 1][field]

Max(a, b) == IF a >= b THEN a ELSE b
Min(a, b) == IF a <= b THEN a ELSE b

ClampIndex(c) == Min(Max(0, c), TableLength - 1)

getBiasData(active) ==
    IF active = NullSelection
    THEN [genderBias |-> SumField("genderBias", TableLength) \div TableLength,
          ageBias |-> SumField("ageBias", TableLength) \div TableLength,
          ethnicityBias |-> SumField("ethnicityBias", TableLength) \div TableLength,
          recommendations |-> "All Clusters"]
    ELSE clusterBiasData[ClampIndex(active)]

\* the parent passes a new activeCluster and the component renders
RenderBias(c) ==
    /\ biasCluster' = c
    /\ biasData' = getBiasData(c)
    /\ biasName' = getClusterName(c)

BiasIdle ==
    /\ biasCluster = NullSelection
    /\ biasData = getBiasData(NullSelection)
    /\ biasName = getClusterName(NullSelection)

-----------------------------------------------------------------------------
(* Cluster keys.  SphereScene derives the numeric id of a cluster from the  *)
(* key the cluster is stored under in clusterEmbeddings.clusters.  A string *)
(* is a sequence of one-character strings.                                  *)

MaxClusterCount == 10
DigitChars == <<"0", "1", "2", "3", "4", "5", "6", "7", "8", "9">>

\* String(n) for a non-negative integer
RECURSIVE NumberToString(_)
NumberToString(n) ==
    IF n < 10 THEN <<DigitChars[n + 1]>>
    ELSE NumberToString(n \div 10) \o <<DigitChars[(n % 10) + 1]>>

\* str.slice(-1): the last character, "" for the empty string
LastChar(str) == IF Len(str) = 0 THEN <<>> ELSE <<str[Len(str)]>>

\* str.substr(start): from position `start` (counted from 0) to the end
Substr(str, start) == SubSeq(str, Max(start, 0) + 1, Len(str))

DigitValue(ch) ==
    IF \E d \in 1..10 : DigitChars[d] = ch
    THEN (CHOOSE d \in 1..10 : DigitChars[d] = ch) - 1
    ELSE NaN

RECURSIVE ParseFrom(_, _, _)
ParseFrom(str, i, acc) ==
    IF i > Len(str) \/ DigitValue(str[i]) = NaN THEN acc
    ELSE ParseFrom(str, i + 1, acc * 10 + DigitValue(str[i]))

\* parseInt(str, 10) of a string without sign or white space: the value of
\* its leading digits, NaN when it does not start with a digit
parseInt(str) ==
    IF Len(str) = 0 \/ DigitValue(str[1]) = NaN THEN NaN ELSE ParseFrom(str, 1, 0)

\* const clusterId = parseInt(clusterIdStr.slice(-1), 10)
clusterId(clusterIdStr) == parseInt(LastChar(clusterIdStr))

\* The scene effect: every sphere of a cluster gets userData.cluster_id
DrawClusters ==
    /\ meshIds' = {<<k, clusterId(k)>> : k \in clusterKeys}
    /\ UNCHANGED <<clusterKeys, analysisIds>>

\* The analysis effect: one getClusterAnalysis call per key
fetchClusterAnalyses ==
    /\ analysisIds' = {<<k, parseInt(Substr(k, Len(k) - 1))>> : k \in clusterKeys}
    /\ UNCHANGED <<clusterKeys, meshIds>>

KeyIdle ==
    /\ clusterKeys = {}
    /\ meshIds = {}
    /\ analysisIds = {}

-----------------------------------------------------------------------------
(* pages/api/transform_embeddings.js.  Every await of the handler ends an   *)
(* action; what the file system and the two Python scripts do is an input   *)
(* of the action that awaits them.  The text of the output file is one of a *)
(* few samples; JSONparse is JSON.parse on those samples.                   *)

Missing == "ENOENT"
FallbackText == "[[0.5,0.5,0.5,120,70,80],...]"
Texts == {"[]", "[[1,2,3,4,5,6]]", "{}", "null", "7", "", "[1,", FallbackText}

Value(type, len) == [type |-> type, len |-> len]
NoVectors == Value("undefined", 0)
SyntaxError == Value("SyntaxError", 0)
fallbackData == Value("array", 8)

JSONparse(text) ==
    CASE text = "[]" -> Value("array", 0)
      [] text = "[[1,2,3,4,5,6]]" -> Value("array", 1)
      [] text = FallbackText -> Value("array", 8)
      [] text = "{}" -> Value("object", 0)
      [] text = "null" -> Value("null", 0)
      [] text = "7" -> Value("number", 0)
      [] OTHER -> SyntaxError

\* JSON.stringify(fallbackData)
JSONstringify(v) == IF v = fallbackData THEN FallbackText ELSE "null"

\* typeof v === "object" in place of Array.isArray(v)
IsObject(v) == v.type \in {"array", "object", "null"}

\* Array.isArray(v)
IsArray(v) == v.type = "array"

Response(status, vectors, usedFallback) ==
    [status |-> status, vectors |-> vectors, usedFallback |-> usedFallback]

\* res.status(500).json({ error }) and the end of the handler
Send500 ==
    /\ responses' = Append(responses, Response(500, NoVectors, FALSE))
    /\ txPc' = "done"

\* A request arrives.  The files on disk are those earlier requests left.
Request ==
    /\ txPc \in {"idle", "done"}
    /\ requests < MaxRequests
    /\ requests' = requests + 1
    /\ responses' = <<>>
    /\ txPc' = "access"
    /\ fileData' = Missing
    /\ embeddingsReady' = FALSE
    /\ fileOpThrew' = FALSE
    /\ transformFailed' = FALSE
    /\ UNCHANGED <<embeddingsFile, outputFile>>

\* await fs.access(embeddings_path): embeddings_exist
AccessEmbeddings ==
    /\ txPc = "access"
    /\ txPc' = IF embeddingsFile THEN "transform" ELSE "generate"
    /\ embeddingsReady' = embeddingsFile
    /\ UNCHANGED <<requests, responses, embeddingsFile, outputFile, fileData, fileOpThrew,
                   transformFailed>>

\* python embeddings.py: an exec error rejects, and the outer catch answers
GenerateEmbeddings(error, created) ==
    /\ txPc = "generate"
    /\ embeddingsFile' = created
    /\ IF error THEN Send500
       ELSE /\ txPc' = "recheck"
            /\ UNCHANGED responses
    /\ UNCHANGED <<requests, outputFile, fileData, embeddingsReady, fileOpThrew,
                   transformFailed>>

\* "Check again if embeddings file was created"
RecheckEmbeddings ==
    /\ txPc = "recheck"
    /\ IF embeddingsFile
       THEN /\ txPc' = "transform"
            /\ embeddingsReady' = TRUE
            /\ UNCHANGED responses
       ELSE /\ Send500
            /\ UNCHANGED embeddingsReady
    /\ UNCHANGED <<requests, embeddingsFile, outputFile, fileData, fileOpThrew,
                   transformFailed>>

\* python transform_embeddings.py: the callback resolves also on an error.
\* `written` is what the script left in the output file.
RunTransform(error, written) ==
    /\ txPc = "transform"
    /\ transformFailed' = error
    /\ outputFile' = written
    /\ txPc' = "checkOutput"
    /\ UNCHANGED <<requests, responses, embeddingsFile, fileData, embeddingsReady,
                   fileOpThrew>>

\* await fs.access(outputPath)
CheckOutput ==
    /\ txPc = "checkOutput"
    /\ txPc' = IF outputFile = Missing THEN "writeFallback" ELSE "read"
    /\ UNCHANGED <<requests, responses, embeddingsFile, outputFile, fileData,
                   embeddingsReady, fileOpThrew, transformFailed>>

\* await fs.writeFile(outputPath, JSON.stringify(fallbackData)) in the inner
\* try: when it throws, the inner catch writes again
WriteFallback(throws) ==
    /\ txPc = "writeFallback"
    /\ IF throws
       THEN /\ txPc' = "writeAgain"
            /\ fileOpThrew' = TRUE
            /\ UNCHANGED outputFile
       ELSE /\ txPc' = "read"
            /\ outputFile' = JSONstringify(fallbackData)
            /\ UNCHANGED fileOpThrew
    /\ UNCHANGED <<requests, responses, embeddingsFile, fileData, embeddingsReady,
                   transformFailed>>

\* the writeFile of the inner catch: when it throws, the outer catch answers
WriteAgain(throws) ==
    /\ txPc = "writeAgain"
    /\ IF throws
       THEN /\ Send500
            /\ UNCHANGED outputFile
       ELSE /\ txPc' = "read"
            /\ outputFile' = JSONstringify(fallbackData)
            /\ UNCHANGED responses
    /\ UNCHANGED <<requests, embeddingsFile, fileData, embeddingsReady, fileOpThrew,
                   transformFailed>>

\* await fs.readFile(outputPath, 'utf8'): throws when the file is missing,
\* and may throw for any other reason
ReadOutput(throws) ==
    /\ txPc = "read"
    /\ IF throws \/ outputFile = Missing
       THEN /\ Send500
            /\ fileOpThrew' = TRUE
            /\ UNCHANGED fileData
       ELSE /\ txPc' = "parse"
            /\ fileData' = outputFile
            /\ UNCHANGED <<responses, fileOpThrew>>
    /\ UNCHANGED <<requests, embeddingsFile, outputFile, embeddingsReady, transformFailed>>

\* JSON.parse, the array check and res.status(200).json({ vectors, debug })
ParseAndSend ==
    /\ txPc = "parse"
    /\ LET parsed == JSONparse(fileData)
           usedFallback == parsed = SyntaxError \/ ~IsArray(parsed)
           vectors == IF usedFallback THEN fallbackData ELSE parsed
       IN responses' = Append(responses, Response(200, vectors, usedFallback))
    /\ txPc' = "done"
    /\ UNCHANGED <<requests, embeddingsFile, outputFile, fileData, embeddingsReady,
                   fileOpThrew, transformFailed>>

\* Between requests anything may create, change or remove the two files
DiskChanges(emb, out) ==
    /\ txPc \in {"idle", "done"}
    /\ embeddingsFile' = emb
    /\ outputFile' = out
    /\ UNCHANGED <<txPc, requests, responses, fileData, embeddingsReady, fileOpThrew,
                   transformFailed>>

TxIdle ==
    /\ txPc = "idle"
    /\ requests = 0
    /\ responses = <<>>
    /\ embeddingsFile = FALSE
    /\ outputFile = Missing
    /\ fileData = Missing
    /\ embeddingsReady = FALSE
    /\ fileOpThrew = FALSE
    /\ transformFailed = FALSE

AuxIdle == BiasIdle /\ HandlerIdle /\ PickIdle /\ KeyIdle /\ TxIdle

Init == HomeInit /\ ApiInit /\ SceneIdle /\ AuxIdle

\* The polling machine never reads the selected file: outside UploadSpec the
\* user picks this one
PollFiles == {[name |-> <<"a", ".", "c", "s", "v">>, type |-> "text/csv"]}

\* Spec: Home with one job, every interleaving of its timers, status responses,
\* fan-out fetches and reset timeouts, and every answer to every fetch
Next ==
    \/ handleUpload
    \/ closeUploadModal
    \/ \E file \in PollFiles : handleFileChange(file)
    \/ \E file \in PollFiles : handleDrop(file)
    \/ processUpload
    \/ \E u \in BagToSet(uploads), http \in Http, hasJobId \in BOOLEAN :
          UploadResponse(u, http, hasJobId, {1})
    \/ closeError
    \/ \E j \in Jobs : ServerAdvance(j)
    \/ \E t \in timers, http \in Http : Tick(t, http, TRUE)
    \/ \E r \in BagToSet(inflight) : StatusResponse(r)
    \/ \E f \in BagToSet(fanouts), http \in Http : FanoutStep(f, http, AvailChoices)
    \/ \E f \in BagToSet(fanouts) : ClearJobTimeout(f)
    \/ \E f \in BagToSet(fanouts) : ClearStatusTimeout(f)

Spec == Init /\ [][Next]_vars

\* JobsSpec: Home with several jobs and with unmounting; the backend reports no
\* dataset of a completed job as available
JobsNext ==
    \/ handleUpload
    \/ closeUploadModal
    \/ \E file \in PollFiles : handleFileChange(file)
    \/ \E file \in PollFiles : handleDrop(file)
    \/ processUpload
    \/ \E u \in BagToSet(uploads), http \in Http, hasJobId \in BOOLEAN :
          UploadResponse(u, http, hasJobId, Jobs)
    \/ closeError
    \/ Unmount
    \/ \E j \in Jobs : ServerAdvance(j)
    \/ \E t \in timers, http \in Http : Tick(t, http, TRUE)
    \/ \E r \in BagToSet(inflight) : StatusResponse(r)
    \/ \E f \in BagToSet(fanouts), http \in Http : FanoutStep(f, http, {{}})
    \/ \E f \in BagToSet(fanouts) : ClearJobTimeout(f)
    \/ \E f \in BagToSet(fanouts) : ClearStatusTimeout(f)

JobsSpec == Init /\ [][JobsNext]_vars

\* UploadSpec: Home with every file of Files offered through the input and the
\* drop zone, one job, and no dataset of a completed job available
UploadNext ==
    \/ handleUpload
    \/ closeUploadModal
    \/ \E file \in Files : handleFileChange(file)
    \/ \E file \in Files : handleDrop(file)
    \/ processUpload
    \/ \E u \in BagToSet(uploads), http \in Http, hasJobId \in BOOLEAN :
          UploadResponse(u, http, hasJobId, {1})
    \/ closeError
    \/ \E j \in Jobs : ServerAdvance(j)
    \/ \E t \in timers, http \in Http : Tick(t, http, TRUE)
    \/ \E r \in BagToSet(inflight) : StatusResponse(r)
    \/ \E f \in BagToSet(fanouts), http \in Http : FanoutStep(f, http, {{}})
    \/ \E f \in BagToSet(fanouts) : ClearJobTimeout(f)
    \/ \E f \in BagToSet(fanouts) : ClearStatusTimeout(f)

UploadSpec == Init /\ [][UploadNext]_vars

\* FanSpec: Home with several jobs whose status responses arrive within the
\* polling interval, and every answer to every fetch of the completion fan-out
FanNext ==
    \/ handleUpload
    \/ closeUploadModal
    \/ \E file \in PollFiles : handleFileChange(file)
    \/ \E file \in PollFiles : handleDrop(file)
    \/ processUpload
    \/ \E u \in BagToSet(uploads), http \in Http, hasJobId \in BOOLEAN :
          UploadResponse(u, http, hasJobId, Jobs)
    \/ closeError
    \/ \E j \in Jobs : ServerAdvance(j)
    \/ \E t \in timers, http \in Http : Tick(t, http, FALSE)
    \/ \E r \in BagToSet(inflight) : StatusResponse(r)
    \/ \E f \in BagToSet(fanouts), http \in Http : FanoutStep(f, http, AvailChoices)
    \/ \E f \in BagToSet(fanouts) : ClearJobTimeout(f)
    \/ \E f \in BagToSet(fanouts) : ClearStatusTimeout(f)

FanSpec == Init /\ [][FanNext]_vars

\* The callbacks the browser runs on its own: responses, timer ticks, timeouts
UploadResponses ==
    \E u \in BagToSet(uploads), http \in Http, hasJobId \in BOOLEAN :
        UploadResponse(u, http, hasJobId, {1})
Ticks == \E t \in timers, http \in Http : Tick(t, http, TRUE)
StatusResponses == \E r \in BagToSet(inflight) : StatusResponse(r)
FanoutSteps == \E f \in BagToSet(fanouts), http \in Http : FanoutStep(f, http, AvailChoices)
ClearJobTimeouts == \E f \in BagToSet(fanouts) : ClearJobTimeout(f)
ClearStatusTimeouts == \E f \in BagToSet(fanouts) : ClearStatusTimeout(f)

\* LiveSpec: Spec with a user who does nothing more once a status response
\* reported completed or failed, and with every pending response, tick and
\* timeout eventually delivered
LiveNext ==
    \/ ~terminalSeen /\ handleUpload
    \/ ~terminalSeen /\ closeUploadModal
    \/ ~terminalSeen /\ \E file \in PollFiles : handleFileChange(file)
    \/ ~terminalSeen /\ \E file \in PollFiles : handleDrop(file)
    \/ ~terminalSeen /\ processUpload
    \/ ~terminalSeen /\ closeError
    \/ \E j \in Jobs : ServerAdvance(j)
    \/ UploadResponses
    \/ Ticks
    \/ StatusResponses
    \/ FanoutSteps
    \/ ClearJobTimeouts
    \/ ClearStatusTimeouts

LiveSpec ==
    /\ Init
    /\ [][LiveNext]_vars
    /\ WF_vars(UploadResponses)
    /\ WF_vars(Ticks)
    /\ WF_vars(StatusResponses)
    /\ WF_vars(FanoutSteps)
    /\ WF_vars(ClearJobTimeouts)
    /\ WF_vars(ClearStatusTimeouts)

\* ApiSpec: the API client on its own, every function, job id and HTTP answer
ApiSpec == Init /\ [][ApiNext]_vars

-----------------------------------------------------------------------------
(* Claims *)

\* The job-status requests of job j awaiting their response
Pending(bag, j) ==
    BagCardinality([r \in {x \in BagToSet(bag) : x.job = j} |-> CopiesIn(r, bag)])

\* A job-status request for job j is issued in this step
StatusRequested(j) == Pending(inflight', j) > Pending(inflight, j)

Finished(f) == f.pc \in {PcFirstTimeout, PcSecondTimeout}

\* C1: once a status response for the job reported completed or failed, no
\* further job-status request is issued for that job, in any interleaving of
\* timer ticks and (late) status responses.
C1_NoPollAfterTerminal ==
    [][terminalSeen => ~StatusRequested(LastJob)]_vars

\* C2: when polling observed only processing and then completed, and
\* cleaned_resumes, summary and individual_clusters are marked available, a
\* finished fan-out leaves exactly one getCleanedResumes, one getUnbiasingSummary
\* and one getAllClustersInfo request issued for the job.
C2_ExactlyOneFetch ==
    \A f \in BagToSet(fanouts) :
        (/\ Finished(f)
         /\ f.job = LastJob
         /\ ~deviated)
        => \A d \in ScenarioDatasets : fetched[d] = 1

\* C3: processing is entered only from uploading (or kept), complete is entered
\* only from processing (or kept); so nothing leads from idle or error into
\* processing or complete without a new upload.
C3_StatusOrder ==
    [][/\ (uploadStatus' = "processing" => uploadStatus \in {"uploading", "processing"})
       /\ (uploadStatus' = "complete" => uploadStatus \in {"processing", "complete"})]_vars

\* The user closes the error overlay or starts a new upload
ClosesOrUploads == closeError \/ handleUpload \/ processUpload

\* C4: a failed status response sets the upload status to error and stops
\* polling, and until the user closes the overlay or starts a new upload the
\* status stays error and no timer polls.
C4_FailedIsTerminal ==
    [][/\ \A r \in BagToSet(inflight) :
             (r.resp = "failed" /\ StatusResponse(r))
             => (uploadStatus' = "error" /\ timers' = {})
       /\ (jobStatus = "failed" /\ uploadStatus = "error" /\ ~ClosesOrUploads)
             => (uploadStatus' = "error" /\ timers' = {})]_vars

\* Everything the completed branch resets after its delays
ResetDone ==
    /\ uploadStatus = "idle"
    /\ ~showSuccessNotification
    /\ jobId = NoJob
    /\ jobStatus = "null"

\* C5: after a status response reported completed for the current job (whose
\* polling had observed nothing but processing before), with every fetch,
\* response and timeout eventually delivered and the user doing nothing else,
\* the upload status eventually is idle with the success notification hidden and
\* jobId and jobStatus cleared to null.
C5_EventuallyReset ==
    (jobStatus = "completed" /\ jobId = LastJob /\ ~deviated) ~> ResetDone

\* C6: a fan-out that has finished has requested every dataset that was marked
\* available, also those that come after a fetch that failed.
C6_NoSiblingAborted ==
    \A f \in BagToSet(fanouts) : Finished(f) => f.avail \subseteq f.req

\* The response to a fan-out fetch is handled in this step
FanoutAdvances ==
    \E f \in BagToSet(fanouts) :
        f.pc < PcFirstTimeout /\ CopiesIn(f, fanouts') < CopiesIn(f, fanouts)

Issued == {r \in BagToSet(inflight') : CopiesIn(r, inflight') > CopiesIn(r, inflight)}

\* C8: at most one polling timer is active, it is the one of the last effect
\* run and polls the current jobId of a mounted component; every status request
\* is issued by that timer, so none is issued after the unmount or by the timer
\* of a previous job id.
C8_OneTimerCurrentJob ==
    /\ [](/\ Cardinality(timers) <= 1
          /\ \A t \in timers : t.job = jobId /\ t.id = effTimer /\ mounted)
    /\ [][\A r \in Issued : r.job = jobId /\ r.tid = effTimer /\ mounted]_vars

\* C8 happens: the timer of a second job polls while a status request of the
\* first job is still awaiting its response
C8_Witness ==
    \E t \in timers, r \in BagToSet(inflight) : t.job = 2 /\ r.job = 1

\* C9: no upload request is ever issued for a file whose name does not end in
\* .csv, whatever MIME type it reports (a file that is uploaded was selected
\* before, so this fails only if the file was not rejected at selection either).
C9_OnlyCsvNames ==
    \A u \in BagToSet(uploads) : EndsWith(u.file.name, CsvSuffix)

\* The calls the claim names as throwing: embeddings, cluster-info and upload
Throwing == {"getUnbiasedEmbeddingsData", "getRemovedEmbeddingsData",
             "getAllClustersInfo", "uploadDataset"}

-----------------------------------------------------------------------------
\* EmbSpec: the sphere scene mounted on the clusters tab; one of the two
\* embedding props is exercised in a run.
EmbInit ==
    /\ HomeInit /\ ApiInit /\ AuxIdle
    /\ revision \in Revisions
    /\ EmbIdle
    /\ LinkIdle
    /\ ColorIdle
    /\ LifeIdle
    /\ mockConnections = {}

\* the payloads the parent passes next: any payload first, then null, an
\* empty one or a short, a long and a short row
NextPayloads(prop) ==
    IF prop = NoPayload THEN Payloads
    ELSE {NoPayload, [embeddings |-> <<>>], [embeddings |-> <<Row(5), Row(6), Row(0)>>]}

EmbNext ==
    \/ MountScene /\ UNCHANGED <<homeVars, call, auxVars>>
    \/ /\ removedEmbeddings = NoPayload /\ removedSpheres = <<>>
       /\ \E p \in NextPayloads(unbiasedEmbeddings) : SetUnbiasedEmbeddings(p)
       /\ UNCHANGED <<homeVars, call, auxVars>>
    \/ /\ unbiasedEmbeddings = NoPayload /\ spheres = <<>>
       /\ \E p \in NextPayloads(removedEmbeddings) : SetRemovedEmbeddings(p)
       /\ UNCHANGED <<homeVars, call, auxVars>>

EmbSpec == EmbInit /\ [][EmbNext]_vars

\* the indexes of the rows of a payload that hold at least six numbers
LongRows(embeddings) == {i \in 1..Len(embeddings) : Len(embeddings[i]) >= 6}

\* the k-th of them
NthLong(embeddings, k) ==
    CHOOSE i \in LongRows(embeddings) :
        Cardinality({j \in LongRows(embeddings) : j <= i}) = k

\* group holds one sphere per long row of the payload, in the payload's order,
\* placed by the row's first three numbers and coloured by its next three
Renders(group, embeddings, scale) ==
    /\ Len(group) = Cardinality(LongRows(embeddings))
    /\ \A k \in 1..Len(group) :
          LET emb == embeddings[NthLong(embeddings, k)]
          IN  /\ group[k].position = <<emb[1] * scale, emb[2] * scale, emb[3] * scale>>
              /\ group[k].color = <<emb[4] + 2, emb[5] + 2, emb[6] + 2>>

RevisionScale == IF revision = "current" THEN SCALE ELSE SCALE_FACTOR

\* C11: whenever an unbiased or removed payload is set, the spheres in the scene
\* for it are exactly its rows of six or more numbers, in the payload's order;
\* shorter rows leave no sphere
C11_SpheresAreLongRows ==
    /\ unbiasedEmbeddings # NoPayload
          => Renders(spheres, unbiasedEmbeddings.embeddings, RevisionScale)
    /\ removedEmbeddings # NoPayload
          => Renders(removedSpheres, removedEmbeddings.embeddings, RevisionScale)

\* C11 witness: a payload of a long, a short and a long row was rendered
C11_Witness ==
    /\ removedEmbeddings # NoPayload
    /\ Len(removedEmbeddings.embeddings) = 3
    /\ Len(removedEmbeddings.embeddings[1]) = 7
    /\ Len(removedEmbeddings.embeddings[2]) = 5
    /\ Len(removedEmbeddings.embeddings[3]) = 6
    /\ Len(removedSpheres) = 2


-----------------------------------------------------------------------------
\* LinkSpec: the current revision mounted, then given a set of clusters.
LinkInit ==
    /\ HomeInit /\ ApiInit /\ AuxIdle
    /\ SceneIdle

LinkNext ==
    \/ MountScene /\ UNCHANGED <<homeVars, call, auxVars>>
    \/ /\ clusterEmbeddings = NoPayload
       /\ \E cs \in ClusterInputs : SetClusterEmbeddings([clusters |-> cs])
       /\ UNCHANGED <<homeVars, call, auxVars>>

LinkSpec == LinkInit /\ [][LinkNext]_vars

Rendered == allClustersGroup # <<>>

\* the nodes of the scene: cluster and index in the cluster
SceneNodes ==
    UNION {{<<c, i>> : i \in 1..Len(allClustersGroup[c])} : c \in DOMAIN allClustersGroup}

Targets(n) == {l.to : l \in {l \in allLinesGroup : l.from = n}}

Dist(n, k) == DistanceWithSelf(allClustersGroup[n[1]], n[2], k[2])

Others(n) == {k \in SceneNodes : k[1] = n[1] /\ k # n}

Near(n) == {k \in Others(n) : Dist(n, k) <= Square(ConnectDistance)}

\* C12: the lines from a node go to other nodes of its cluster only, at most
\* 3 of them, all within the threshold, none farther than a node left out, and
\* as many as there are nodes within the threshold, up to 3
C12_NearestThree ==
    Rendered =>
        \A n \in SceneNodes :
            /\ Targets(n) \subseteq Near(n)
            /\ Cardinality(Targets(n)) <= MAX_CONNECTIONS_PER_NODE
            /\ \A t \in Targets(n) : \A k \in Others(n) \ Targets(n) :
                  Dist(n, k) >= Dist(n, t)
            /\ \/ Cardinality(Targets(n)) = MAX_CONNECTIONS_PER_NODE
               \/ Targets(n) = Near(n)

\* C12 witness: a node with four others of its cluster within the threshold and
\* a node of another cluster at its own position draws exactly three lines
C12_Witness ==
    /\ Rendered
    /\ \E n \in SceneNodes :
          /\ Cardinality(Near(n)) = 4
          /\ Cardinality(Targets(n)) = 3
          /\ \E k \in SceneNodes :
                k[1] # n[1] /\ allClustersGroup[k[1]][k[2]] = allClustersGroup[n[1]][n[2]]

\* C13: two nodes of one cluster at the same position have a line between them
C13_CoincidentConnected ==
    Rendered =>
        \A n \in SceneNodes : \A k \in Others(n) :
            Dist(n, k) = 0 =>
                \/ [from |-> n, to |-> k] \in allLinesGroup
                \/ [from |-> k, to |-> n] \in allLinesGroup

\* C14: in a cluster of m < 4 rendered nodes every node is the source of at
\* most m - 1 lines
C14_SmallClusters ==
    Rendered =>
        \A n \in SceneNodes :
            Len(allClustersGroup[n[1]]) < 4 =>
                Cardinality(Targets(n)) <= Len(allClustersGroup[n[1]]) - 1

\* C14 witness: a cluster of three nodes whose nodes each draw two lines, next to
\* a cluster of a single node that draws none
C14_Witness ==
    /\ Rendered
    /\ \E c \in DOMAIN allClustersGroup :
          /\ Len(allClustersGroup[c]) = 3
          /\ \A i \in 1..3 : Cardinality(Targets(<<c, i>>)) = 2
    /\ \E c \in DOMAIN allClustersGroup :
          /\ Len(allClustersGroup[c]) = 1
          /\ Targets(<<c, 1>>) = {}


-----------------------------------------------------------------------------
\* ColorSpec: the colour selection of one sphere, in each revision.
ColorInit ==
    /\ HomeInit /\ ApiInit /\ AuxIdle
    /\ revision \in ColorRevisions
    /\ EmbIdle
    /\ LinkIdle
    /\ LifeIdle
    /\ mockConnections = {}
    /\ dataPoint \in DataPoints(revision)
    /\ rgbColor = NotColored

ColorNext ==
    /\ rgbColor = NotColored
    /\ ColorSphere
    /\ UNCHANGED <<homeVars, call, auxVars>>

ColorSpec == ColorInit /\ [][ColorNext]_vars

Colored == rgbColor # NotColored

\* C15: a data point with a cluster id c >= 0 is coloured with the palette
\* entry c mod palette length
C15_PaletteModulo ==
    (Colored /\ dataPoint.hasCluster) =>
        rgbColor = PaletteColor(dataPoint.cluster % PaletteLength(revision))

\* C16: the colour computed from a hue h is the colour of the hue h + 360
C16_HuePeriodic ==
    rgbColor.kind = "hsb" =>
        rgbColor.rgb = hsbToRgb(dataPoint.h + 360, dataPoint.s, dataPoint.b)

\* C17: at full saturation and brightness hue 0 gives pure red, hue 120 pure
\* green and hue 240 pure blue
C17_Primaries ==
    (rgbColor.kind = "hsb" /\ dataPoint.s = 100 /\ dataPoint.b = 100) =>
        /\ dataPoint.h = 0 => rgbColor.rgb = <<One, 0, 0>>
        /\ dataPoint.h = 120 => rgbColor.rgb = <<0, One, 0>>
        /\ dataPoint.h = 240 => rgbColor.rgb = <<0, 0, One>>

\* C17 witness: hue 240 at full saturation and brightness was converted
C17_Witness ==
    /\ rgbColor.kind = "hsb"
    /\ dataPoint.h = 240 /\ dataPoint.s = 100 /\ dataPoint.b = 100
    /\ rgbColor.rgb = <<0, 0, One>>


-----------------------------------------------------------------------------
\* LifeSpec: the scene of each revision from mount to unmount, its data props
\* and dependencies changing in between.
LifePayloads ==
    {NoPayload, [embeddings |-> <<Row(6)>>], [embeddings |-> <<Row(5), Row(6), Row(7)>>]}

LifeClusters ==
    {NoPayload,
     [clusters |-> << << <<0, 0, 0>>, <<1, 0, 0>> >>, << <<0, 0, 0>> >> >>],
     [clusters |-> << << <<0, 0, 0>> >>, <<>> >>]}

LifeInit ==
    /\ HomeInit /\ ApiInit /\ AuxIdle
    /\ revision \in LifeRevisions
    /\ EmbIdle
    /\ LinkIdle
    /\ ColorIdle
    /\ LifeIdle
    /\ mockConnections \in (IF revision = "current" THEN {{}} ELSE SUBSET MockPairs)

LifeNext ==
    \/ MountScene /\ UNCHANGED <<homeVars, call, auxVars>>
    \/ \E p \in LifePayloads : SetUnbiasedEmbeddings(p) /\ UNCHANGED <<homeVars, call, auxVars>>
    \/ \E p \in LifePayloads : SetRemovedEmbeddings(p) /\ UNCHANGED <<homeVars, call, auxVars>>
    \/ \E cs \in LifeClusters : SetClusterEmbeddings(cs) /\ UNCHANGED <<homeVars, call, auxVars>>
    \/ \E c \in 1..2 : toggleClusterVisibility(c) /\ UNCHANGED <<homeVars, call, auxVars>>
    \/ \E c \in MockClusters \cup {NoCluster} :
          SetActiveCluster(c) /\ UNCHANGED <<homeVars, call, auxVars>>
    \/ UnmountScene /\ UNCHANGED <<homeVars, call, auxVars>>

LifeSpec == LifeInit /\ [][LifeNext]_vars

\* C18: once the component is unmounted no listener is registered and no
\* geometry or material is left undisposed
C18_UnmountClean ==
    scene = "unmounted" => (listeners = {} /\ stale = 0)

\* C19: while the scene is mounted and its data props change, the scene holds
\* at most one group of each kind and no undisposed object of a replaced group
C19_RebuildDisposes ==
    (scene = "mounted" /\ revision \in Revisions) =>
        /\ stale = 0
        /\ \A k \in GroupKinds : sceneGroups[k] <= 1


-----------------------------------------------------------------------------
\* CamSpec: the first and the cluster revision mounted, under wheel events,
\* recenter animations and changes of the active cluster.
CamInit ==
    /\ HomeInit /\ ApiInit /\ AuxIdle
    /\ revision \in {"first", "cluster"}
    /\ EmbIdle
    /\ LinkIdle
    /\ ColorIdle
    /\ LifeIdle
    /\ mockConnections = {}

CamNext ==
    \/ MountScene /\ UNCHANGED <<homeVars, call, auxVars>>
    \/ \E zoomIn \in BOOLEAN, over \in BOOLEAN :
          handleWheel(zoomIn, over) /\ UNCHANGED <<homeVars, call, auxVars>>
    \/ recenterCamera /\ UNCHANGED <<homeVars, call, auxVars>>
    \/ \E a \in recenters, k \in 1..AnimFrames :
          animateReset(a, k) /\ UNCHANGED <<homeVars, call, auxVars>>
    \/ \E c \in MockClusters \cup {NoCluster} :
          SetActiveCluster(c) /\ UNCHANGED <<homeVars, call, auxVars>>

CamSpec == CamInit /\ [][CamNext]_vars

\* a wheel event over the canvas was handled in this step
WheelOverCanvas ==
    \E zoomIn \in BOOLEAN : handleWheel(zoomIn, TRUE)

-----------------------------------------------------------------------------
\* BiasSpec: the bias panel rendered for every selection the parent can pass
BiasNext == \E c \in {NullSelection} \cup BiasClusters :
    RenderBias(c) /\ UNCHANGED <<homeVars, call, sceneVars, handlerVars, pickVars, extraVars>>

BiasSpec == Init /\ [][BiasNext]_vars

\* C21: for every selected cluster c >= 0 the panel shows the statistics of
\* row (c mod table length), the row its displayed group name comes from,
\* and for a null selection the arithmetic mean of all rows.
C21_PanelRow ==
    /\ (biasCluster # NullSelection /\ biasCluster >= 0) =>
          /\ biasData = clusterBiasData[biasCluster % TableLength]
          /\ biasName = clusterNames[biasCluster % TableLength]
          /\ biasData.recommendations = biasName
    /\ biasCluster = NullSelection =>
          \A f \in {"genderBias", "ageBias", "ethnicityBias"} :
              biasData[f] * TableLength = SumField(f, TableLength)

-----------------------------------------------------------------------------
\* A reset timeout of the fan-out f fires while the page follows another job
ResetOfOtherJob(f) ==
    /\ ClearJobTimeout(f) \/ ClearStatusTimeout(f)
    /\ jobId # NoJob
    /\ f.job # jobId

\* C22: the delayed reset scheduled when job A completed never clears the job
\* id, job status or upload status of a job B uploaded afterwards, and B
\* keeps its polling timer.
C22_ResetSparesNewJob ==
    [][\A f \in BagToSet(fanouts) :
          ResetOfOtherJob(f) =>
             /\ jobId' = jobId
             /\ jobStatus' = jobStatus
             /\ uploadStatus' = uploadStatus
             /\ (\E t \in timers : t.job = jobId) => (\E t \in timers' : t.job = jobId)]_vars

-----------------------------------------------------------------------------
\* C23 (while the upload dialog is open the Upload button was pressed and
\* Process CSV was not yet, so every pending status response and fan-out
\* belongs to the job before): after handleUpload no late status response and no fan-out of the
\* previous job writes resumes, summary, cluster data or embeddings into
\* the view state or changes the upload status.
C23_NoStaleWrites ==
    [][(showUploadModal /\ (StatusResponses \/ FanoutSteps)) =>
          (viewVars' = viewVars /\ uploadStatus' = uploadStatus)]_vars

-----------------------------------------------------------------------------
\* RetrySpec: Home with one job and a user who keeps trying: whatever button
\* stays or keeps becoming available is pressed again, and every pending
\* response, tick and timeout is delivered
FileChanges == \E file \in PollFiles : handleFileChange(file)
FileDrops == \E file \in PollFiles : handleDrop(file)
StartHandlers == \E fn \in ButtonHandlers : StartHandler(fn)
HandlerResponses == \E h \in BagToSet(pending), http \in Http : HandlerResponse(h, http)
PromptTicks == \E t \in timers, http \in Http : Tick(t, http, FALSE)
EmptyFanoutSteps == \E f \in BagToSet(fanouts), http \in Http : FanoutStep(f, http, {{}})
ServerAdvances == \E j \in Jobs : ServerAdvance(j)

RetryNext ==
    \/ handleUpload
    \/ closeUploadModal
    \/ FileChanges
    \/ FileDrops
    \/ processUpload
    \/ closeError
    \/ StartHandlers
    \/ HandlerResponses
    \/ UploadResponses
    \/ ServerAdvances
    \/ PromptTicks
    \/ StatusResponses
    \/ EmptyFanoutSteps
    \/ ClearJobTimeouts
    \/ ClearStatusTimeouts

RetrySpec ==
    /\ Init
    /\ [][RetryNext]_vars
    /\ SF_vars(handleUpload)
    /\ SF_vars(closeUploadModal)
    /\ SF_vars(FileChanges)
    /\ SF_vars(processUpload)
    /\ SF_vars(closeError)
    /\ SF_vars(StartHandlers)
    /\ WF_vars(HandlerResponses)
    /\ WF_vars(UploadResponses)
    /\ WF_vars(PromptTicks)
    /\ WF_vars(StatusResponses)
    /\ WF_vars(EmptyFanoutSteps)
    /\ WF_vars(ClearJobTimeouts)
    /\ WF_vars(ClearStatusTimeouts)

\* C24: after a failed upload attempt or a job-status check that threw, the
\* loading flag eventually becomes false again, so that the Process CSV
\* button is not left disabled for good.
C24_LoadingResets == (uploadStatus = "error" /\ isLoading) ~> ~isLoading

-----------------------------------------------------------------------------
\* PickSpec: the cluster and API revisions of the scene with their mock
\* spheres, under mouse presses, moves and releases and legend clicks
PickInit ==
    /\ HomeInit /\ ApiInit /\ AuxIdle
    /\ revision \in {"cluster", "api"}
    /\ EmbIdle
    /\ LinkIdle
    /\ ColorIdle
    /\ LifeIdle
    /\ mockConnections = {<<1, 2>>}

PickNext ==
    \/ MountScene /\ UNCHANGED <<homeVars, call, auxVars>>
    \/ \E p \in Points : handleMouseDown(p) /\ UNCHANGED <<homeVars, call, biasVars, handlerVars, extraVars>>
    \/ \E p \in Points, over \in SceneSpheres \cup {NoSphere} :
          handleMouseMove(p, over) /\ UNCHANGED <<homeVars, call, biasVars, handlerVars, extraVars>>
    \/ /\ isDraggingRef
       /\ \E over \in SceneSpheres \cup {NoSphere} :
             handleMouseUp(over) /\ UNCHANGED <<homeVars, call, biasVars, handlerVars, extraVars>>
    \/ \E c \in MockClusters :
          handleLegendClick(c) /\ UNCHANGED <<homeVars, call, biasVars, handlerVars, extraVars>>

PickSpec == PickInit /\ [][PickNext]_vars

\* the pointer is up: every click is fully processed
PointerUp == scene = "mounted" /\ ~isDraggingRef

\* C25: after each click on a sphere or a legend entry, a sphere's
\* isActiveCluster uniform is true and its pulseIntensity is 1 exactly when
\* some cluster is active and the sphere belongs to it; a click on a sphere
\* of the active cluster deselects it.
C25_UniformsFollowSelection ==
    /\ [](PointerUp =>
            /\ isActiveCluster = ActiveSpheres(activeCluster)
            /\ pulseIntensity = ActiveSpheres(activeCluster))
    /\ [][\A s \in MockSpheres :
            (s.cluster = activeCluster /\ ~didMoveRef /\ isDraggingRef
             /\ handleMouseUp(s)) => activeCluster' = NoCluster]_vars

\* the displacement of the pointer since the press
Displacement ==
    <<previousMousePositionRef[1] - pressPosition[1],
      previousMousePositionRef[2] - pressPosition[2]>>

\* C26: a press and release during which the pointer travelled more than 3
\* pixels in x or in y from the press position never changes the active
\* cluster, whatever the sequence of mouse moves in between.
C26_DragIsNoClick ==
    [][(isDraggingRef /\ ~isDraggingRef'
        /\ (Abs(Displacement[1]) > DragThreshold \/ Abs(Displacement[2]) > DragThreshold))
       => activeCluster' = activeCluster]_vars

-----------------------------------------------------------------------------
\* HoverSpec: the current revision of the scene under pointer moves and
\* leaves on the canvas, changes of the cluster data and visibility toggles
HoverNodes == {<<>>, << <<0, 0, 0>> >>, << <<0, 0, 0>>, <<1, 0, 0>> >>}
HoverClusters == {NoPayload} \cup {[clusters |-> <<a, b>>] : a, b \in HoverNodes}

HoverNext ==
    \/ MountScene /\ UNCHANGED <<homeVars, call, auxVars>>
    \/ \E cs \in HoverClusters :
          SetClusterEmbeddings(cs) /\ HoverRerun
          /\ UNCHANGED <<homeVars, call, biasVars, handlerVars, extraVars>>
    \/ \E c \in 1..2 :
          toggleClusterVisibility(c) /\ HoverRerun
          /\ UNCHANGED <<homeVars, call, biasVars, handlerVars, extraVars>>
    \/ \E over \in SceneSpheres \cup {NoSphere} :
          handleCanvasMouseMove(over) /\ UNCHANGED <<homeVars, call, biasVars, handlerVars, extraVars>>
    \/ handleMouseLeave /\ UNCHANGED <<homeVars, call, biasVars, handlerVars, extraVars>>

HoverSpec == Init /\ [][HoverNext]_vars

\* C27: at most one sphere of the scene has its hovered uniform set, the
\* hover panel is shown exactly when such a sphere exists and shows that
\* sphere's data, and it never shows a node that is not in the scene.
C27_HoverConsistent ==
    /\ Cardinality(isHovered) <= 1
    /\ hoveredVector # NoSphere <=> isHovered # {}
    /\ hoveredVector # NoSphere => isHovered = {hoveredVector}
    /\ hoveredVector \in SceneSpheres \cup {NoSphere}

-----------------------------------------------------------------------------
(* C28: the numeric ids of the cluster keys *)

\* Up to MaxClusterCount clusters, stored under the decimal strings of
\* numbers up to MaxKeyNumber
KeySets ==
    {S \in SUBSET {NumberToString(n) : n \in 0..MaxKeyNumber} :
        Cardinality(S) <= MaxClusterCount}

KeyInit ==
    /\ HomeInit /\ ApiInit /\ SceneIdle
    /\ BiasIdle /\ HandlerIdle /\ PickIdle /\ TxIdle
    /\ clusterKeys \in KeySets
    /\ meshIds = {}
    /\ analysisIds = {}

KeyNext ==
    \/ DrawClusters
       /\ UNCHANGED <<homeVars, call, sceneVars, biasVars, handlerVars, pickVars, txVars>>
    \/ fetchClusterAnalyses
       /\ UNCHANGED <<homeVars, call, sceneVars, biasVars, handlerVars, pickVars, txVars>>

KeySpec == KeyInit /\ [][KeyNext]_vars

Injective(pairs) == \A a, b \in pairs : a[1] # b[1] => a[2] # b[2]

\* C28: distinct cluster keys get distinct numeric cluster ids, on the
\* spheres and in the analysis requests, for every set of up to 10 clusters
C28_DistinctClusterIds == Injective(meshIds) /\ Injective(analysisIds)

\* C28: what does hold: clusters numbered consecutively from 0 or from 1
\* get distinct ids
Consecutive(keys) ==
    \E base \in {0, 1}, k \in 0..MaxClusterCount :
        keys = {NumberToString(n) : n \in base..(base + k - 1)}
C28_ConsecutiveKeysDistinct ==
    Consecutive(clusterKeys) => Injective(meshIds) /\ Injective(analysisIds)

-----------------------------------------------------------------------------
(* C29: job-scoped calls without a job id *)

\* C29: a job-scoped API client function called with an empty or null job
\* id issues no HTTP request: it returns {error}, {} or null, or throws,
\* before any fetch
C29_NoRequestWithoutJob ==
    (call.fn \in ApiFunctions \ Unscoped /\ call.job = NoJob)
        => (/\ ~call.fetched
            /\ call.out \in {"softError", "empty", "null", "throw"})

\* C29: getJobStatus was called without a job id and threw without a fetch
C29_Witness ==
    /\ call.fn = "getJobStatus"
    /\ call.job = NoJob
    /\ call.out = "throw"
    /\ ~call.fetched

-----------------------------------------------------------------------------
(* C30: the transform_embeddings handler *)

notTx == <<homeVars, call, sceneVars, biasVars, handlerVars, pickVars, keyVars>>

\* The steps of the handler between a request and its response
HandlerSteps ==
    \/ AccessEmbeddings /\ UNCHANGED notTx
    \/ \E error, created \in BOOLEAN : GenerateEmbeddings(error, created) /\ UNCHANGED notTx
    \/ RecheckEmbeddings /\ UNCHANGED notTx
    \/ \E error \in BOOLEAN, written \in {outputFile} \cup Texts :
          RunTransform(error, written) /\ UNCHANGED notTx
    \/ CheckOutput /\ UNCHANGED notTx
    \/ \E throws \in BOOLEAN : WriteFallback(throws) /\ UNCHANGED notTx
    \/ \E throws \in BOOLEAN : WriteAgain(throws) /\ UNCHANGED notTx
    \/ \E throws \in BOOLEAN : ReadOutput(throws) /\ UNCHANGED notTx
    \/ ParseAndSend /\ UNCHANGED notTx

TxNext ==
    \/ Request /\ UNCHANGED notTx
    \/ HandlerSteps
    \/ \E emb \in BOOLEAN, out \in {Missing} \cup Texts :
          DiskChanges(emb, out) /\ UNCHANGED notTx

\* The Python scripts and the file system calls end, so that every await of
\* the handler settles
TxSpec == Init /\ [][TxNext]_vars /\ WF_vars(HandlerSteps)

C30_Responses ==
    /\ Len(responses) <= 1
    /\ txPc = "done" => Len(responses) = 1
    /\ \A i \in 1..Len(responses) :
          /\ responses[i].status \in {200, 500}
          /\ responses[i].status = 200 => responses[i].vectors.type = "array"
          /\ responses[i].status = 500 => (~embeddingsReady \/ fileOpThrew)
    /\ (txPc = "done" /\ embeddingsReady /\ ~fileOpThrew) => responses[1].status = 200

\* C30: the handler sends exactly one response per request; when the
\* embeddings file exists or was generated and no file operation throws, the
\* response is 200 with `vectors` an array, whatever the transform script
\* did; it is 500 only when the embeddings file could not be generated or a
\* file operation threw
C30_OneResponse == []C30_Responses /\ ((txPc = "access") ~> (txPc = "done"))

\* C30: the transform script failed and left an output that is not JSON; the
\* handler answered 200 with the built-in fallback vectors
C30_Witness ==
    /\ txPc = "done"
    /\ transformFailed
    /\ JSONparse(fileData) = SyntaxError
    /\ responses = <<Response(200, fallbackData, TRUE)>>

\* C30: the output file was missing, the handler wrote the fallback file and
\* answered 200 with the vectors read back from it
C30_WitnessMissing ==
    /\ txPc = "done"
    /\ fileData = FallbackText
    /\ ~fileOpThrew
    /\ responses = <<Response(200, fallbackData, FALSE)>>

=============================================================================
